---------------------------- MODULE Spec2Model ----------------------------
(***************************************************************************)
(* anyrepo: manifest data model (manifest.py) and the two dependency       *)
(* walkers ManifestIter and ProjectIter (iters.py).                        *)
(*                                                                         *)
(* Representation of Python values:                                        *)
(*   Optional[str]  None is <<>>, a string s is <<s>>                       *)
(*   a URL string   the sequence of its "/"-separated segments, the        *)
(*                  scheme and host kept as one segment; "" is <<"">>       *)
(*   Optional URL   None is <<>>, a URL u is <<u>>                          *)
(***************************************************************************)
EXTENDS Integers, Sequences, FiniteSets, TLC

VARIABLES
    files,        \* the manifest file of each project directory, None when absent
    cloned,       \* the project directories the Git adapter reports cloned
    kind,         \* which walker iterates: "manifest" or "project"
    skip_main,    \* ProjectIter.skip_main
    resolve_url,  \* ProjectIter.resolve_url
    done,         \* the walker's __done list
    stack,        \* the generator frames of __iter, innermost last
    pc,           \* position of __iter__: "start", "load_root", "run", "done", "error"
    error,        \* the exception that ended the traversal, or NoError
    out,          \* the elements yielded so far, in order
    log,          \* the file reads, adapter calls, visits and yields so far
    scanned,      \* the declarations resolved so far, in encounter order
    active,       \* the walker instance the consumer pulls from: 1 or 2
    parked,       \* each walker instance as the consumer last left it
    solo,         \* what the consumer kept of the iterations that have ended
    upstream,     \* the manifest file each project holds upstream, for a consumer that clones
    disk,         \* the content of the manifest file Manifest.save and load work on
    returned,     \* what the calls of Manifest.load / save returned or raised, in order
    project_filter,  \* the closure create_project_filter returned, None before
    calls,        \* the calls of the project filter so far: project and result
    appconfig,    \* the AppConfig instance's constructor arguments and its environment
    config_files, \* the configuration file of each location's directory
    merged_config,   \* AppConfig._merged_config
    last_call     \* the last call on the AppConfig: the files it read, its result

\* The state of one walker instance and the workspace it walks
walker_vars == <<files, cloned, kind, skip_main, resolve_url, done, stack, pc, error, out, log, scanned>>

\* A consumer with several walker instances
consumer_vars == <<active, parked, solo, upstream>>

\* manifest.py called directly: load, save and the project filter
manifest_vars == <<disk, returned, project_filter, calls>>

\* appconfig.py
appconfig_vars == <<appconfig, config_files, merged_config, last_call>>

vars == <<walker_vars, consumer_vars, manifest_vars, appconfig_vars>>

---------------------------------------------------------------------------
(* Bounds *)

\* The longest dependency list of a root manifest
MaxDeps == 2

\* The longest list of allowed paths a project filter is created from
MaxPaths == 2

\* The most calls of one project filter
MaxCalls == 2

---------------------------------------------------------------------------
(* Python values *)

None == <<>>
Some(v) == <<v>>

\* bool(x) of an Optional[str]: None and "" are false
Truthy(o) == o # None /\ o[1] # ""

\* bool(x) of an optional URL string
TruthyUrl(o) == o # None /\ o[1] # <<"">>

\* a if a else b   (Python's `a or b`) on Optional[str]
OrElse(a, b) == IF Truthy(a) THEN a ELSE b

\* str(x) inside an f-string, for an optional URL: None prints as "None"
FormatUrl(o) == IF o = None THEN <<"None">> ELSE o[1]

---------------------------------------------------------------------------
(* manifest.py: data containers *)

Remote(name, url_base) == [name |-> name, url_base |-> url_base]

Defaults(remote, revision) == [remote |-> remote, revision |-> revision]

DefaultsNone == Defaults(None, None)

\* The fields of a project declaration as written in a manifest file
ProjectSpec(name, remote, sub_url, url, revision, path) ==
    [name |-> name, remote |-> remote, sub_url |-> sub_url, url |-> url,
     revision |-> revision, path |-> path]

\* Project(name=...) with every optional field left at its default
Dep(name) == ProjectSpec(name, None, None, None, None, None)

ManifestSpec(defaults, remotes, dependencies) ==
    [defaults |-> defaults, remotes |-> remotes, dependencies |-> dependencies]

\* ManifestSpec(): the module-level _MANIFEST_DEFAULT of iters.py
MANIFEST_DEFAULT == ManifestSpec(DefaultsNone, <<>>, <<>>)

\* _remote_or_url without its last rule: sub-url is accepted without remote
RemoteOrUrlTwoRules(values) ==
    LET remote == values.remote
        sub_url == values.sub_url
        url == values.url
    IN  IF Truthy(remote) /\ TruthyUrl(url)
          THEN "'remote' and 'url' are mutually exclusive"
        ELSE IF TruthyUrl(url) /\ Truthy(sub_url)
          THEN "'url' and 'sub-url' are mutually exclusive"
        ELSE "ok"

\* Project._remote_or_url: "ok", or the ValueError it raises
RemoteOrUrl(values) ==
    LET remote == values.remote
        sub_url == values.sub_url
        url == values.url
    IN  IF Truthy(remote) /\ TruthyUrl(url)
          THEN "'remote' and 'url' are mutually exclusive"
        ELSE IF TruthyUrl(url) /\ Truthy(sub_url)
          THEN "'url' and 'sub-url' are mutually exclusive"
        ELSE IF Truthy(sub_url) /\ ~Truthy(remote)
          THEN "'sub-url' requires 'remote'"
        ELSE "ok"

\* The resolved project: name, path, url, revision
ResolvedProject(name, path, url, revision) ==
    [name |-> name, path |-> path, url |-> url, revision |-> revision]

\* The lookup without its `break`: the last remote named `name` wins
LastRemote(remotes, name) ==
    LET hits == {i \in 1..Len(remotes) : remotes[i].name = name}
    IN  IF hits = {} THEN 0 ELSE CHOOSE i \in hits : \A j \in hits : j <= i

\* The index of the first remote named `name`, 0 when there is none
\* (the for/else loop of from_project)
FirstRemote(remotes, name) ==
    LET hits == {i \in 1..Len(remotes) : remotes[i].name = name}
    IN  IF hits = {} THEN 0 ELSE CHOOSE i \in hits : \A j \in hits : i <= j

\* ResolvedProject.from_project: [ok |-> TRUE, project |-> ...], or
\* [ok |-> FALSE, ...] with the values the ValueError's message prints
FromProject(defaults, remotes, project) ==
    LET project_remote == OrElse(project.remote, defaults.remote)
        project_sub_url == OrElse(project.sub_url, Some(project.name))[1]
        i == FirstRemote(remotes, project_remote[1])
        path == OrElse(project.path, Some(project.name))[1]
        revision == OrElse(project.revision, defaults.revision)
    IN  IF TruthyUrl(project.url)
          THEN [ok |-> TRUE,
                project |-> ResolvedProject(project.name, path, project.url, revision)]
        ELSE IF ~Truthy(project_remote)
          THEN [ok |-> TRUE,
                project |-> ResolvedProject(project.name, path, project.url, revision)]
        ELSE IF i = 0
          THEN [ok |-> FALSE, exception |-> "ValueError", what |-> "Unknown remote",
                remote |-> project.remote, name |-> project.name]
        ELSE [ok |-> TRUE,
              project |-> ResolvedProject(project.name, path,
                              Some(FormatUrl(remotes[i].url_base) \o <<project_sub_url>>),
                              revision)]


\* A load that takes a missing file for an empty manifest
LoadMissingAsEmpty(file, path) ==
    IF file = None
      THEN [ok |-> TRUE, manifest |-> MANIFEST_DEFAULT]
    ELSE LET manifest == file[1]
             bad == {i \in 1..Len(manifest.dependencies) :
                        RemoteOrUrl(manifest.dependencies[i]) # "ok"}
         IN  IF bad # {}
               THEN [ok |-> FALSE, exception |-> "ValidationError", path |-> path,
                     details |-> RemoteOrUrl(manifest.dependencies[
                                     CHOOSE i \in bad : \A j \in bad : i <= j])]
             ELSE [ok |-> TRUE, manifest |-> manifest]

\* Manifest.load: the parsed manifest, ManifestNotFoundError when there is
\* no file, or the validation error of the first declaration that
\* violates _remote_or_url (raised while cls(**manifestdata) builds it)
Load(file, path) ==
    IF file = None
      THEN [ok |-> FALSE, exception |-> "ManifestNotFoundError", path |-> path]
    ELSE LET manifest == file[1]
             bad == {i \in 1..Len(manifest.dependencies) :
                        RemoteOrUrl(manifest.dependencies[i]) # "ok"}
         IN  IF bad # {}
               THEN [ok |-> FALSE, exception |-> "ValidationError", path |-> path,
                     details |-> RemoteOrUrl(manifest.dependencies[
                                     CHOOSE i \in bad : \A j \in bad : i <= j])]
             ELSE [ok |-> TRUE, manifest |-> manifest]

\* ManifestSpec.load(path, default=...): the default instead of
\* ManifestNotFoundError
LoadOrDefault(file, path, default) ==
    LET r == Load(file, path)
    IN  IF ~r.ok /\ r.exception = "ManifestNotFoundError"
          THEN [ok |-> TRUE, manifest |-> default]
        ELSE r

---------------------------------------------------------------------------
(* manifest.py: the manifest file, through yaml and pydantic               *)
(*                                                                         *)
(* A string is kept as the sequence of its "/"-separated segments here     *)
(* too, so a name such as "dep1" is <<"dep1">>.                            *)
(*   Python data   [t |-> "str", v |-> text], [t |-> "int", v |-> text],   *)
(*                 [t |-> "null"], [t |-> "list", items |-> sequence],     *)
(*                 [t |-> "dict", keys |-> function from keys to data]     *)
(*   YAML text     [t |-> "scalar", style |-> "plain" or "quoted", v],     *)
(*                 [t |-> "seq", items], [t |-> "map", keys],              *)
(*                 [t |-> "invalid"]                                       *)

Text(s) == <<s>>

Str(text) == text[1]

PyStr(text) == [t |-> "str", v |-> text]

PyInt(text) == [t |-> "int", v |-> text]

PyNone == [t |-> "null"]

PyList(items) == [t |-> "list", items |-> items]

PyDict(items) == [t |-> "dict", keys |-> items]

\* {}
PyEmptyDict == PyDict([k \in {} |-> PyNone])

\* The type yaml's resolver gives a plain scalar
Resolve(text) ==
    IF text \in {<<"">>, <<"null">>, <<"~">>} THEN "null"
    ELSE IF text \in {<<"1">>, <<"2">>} THEN "int"
    ELSE "str"

Scalar(style, text) == [t |-> "scalar", style |-> style, v |-> text]

\* A dump that writes every string plain
ScalarStylePlain(text) == "plain"

\* yaml.dump of a str: quoted when the plain scalar would not be read back
\* as a str
ScalarStyle(text) == IF Resolve(text) = "str" THEN "plain" ELSE "quoted"

RECURSIVE YamlDump(_)
\* yaml.dump(data)
YamlDump(data) ==
    IF data.t = "str" THEN Scalar(ScalarStyle(data.v), data.v)
    ELSE IF data.t = "int" THEN Scalar("plain", data.v)
    ELSE IF data.t = "null" THEN Scalar("plain", <<"null">>)
    ELSE IF data.t = "list"
      THEN [t |-> "seq", items |-> [i \in 1..Len(data.items) |-> YamlDump(data.items[i])]]
    ELSE [t |-> "map", keys |-> [k \in DOMAIN data.keys |-> YamlDump(data.keys[k])]]

RECURSIVE YamlValue(_)
\* The value yaml.load constructs from parsed text
YamlValue(node) ==
    IF node.t = "scalar"
      THEN IF node.style = "quoted" \/ Resolve(node.v) = "str" THEN PyStr(node.v)
           ELSE IF Resolve(node.v) = "int" THEN PyInt(node.v)
           ELSE PyNone
    ELSE IF node.t = "seq"
      THEN PyList([i \in 1..Len(node.items) |-> YamlValue(node.items[i])])
    ELSE PyDict([k \in DOMAIN node.keys |-> YamlValue(node.keys[k])])

\* yaml.load(content, Loader=yaml.Loader): the data, or yaml's error
YamlLoad(content) ==
    IF content.t = "invalid"
      THEN [ok |-> FALSE, exception |-> "YAMLError"]
    ELSE [ok |-> TRUE, data |-> YamlValue(content)]

\* Model.dict(exclude_none=True) of optional str fields: `fields` maps each
\* key to the field's value, None dropped
StrDict(fields) ==
    PyDict([k \in {x \in DOMAIN fields : fields[x] # None} |-> PyStr(fields[k][1])])

\* Project.dict(by_alias=True, exclude_none=True)
ProjectDict(p) ==
    StrDict([k \in {"name", "remote", "sub-url", "url", "revision", "path"} |->
                IF k = "name" THEN Some(Text(p.name))
                ELSE IF k = "remote" THEN IF p.remote = None THEN None ELSE Some(Text(p.remote[1]))
                ELSE IF k = "sub-url" THEN IF p.sub_url = None THEN None ELSE Some(Text(p.sub_url[1]))
                ELSE IF k = "url" THEN p.url
                ELSE IF k = "revision" THEN IF p.revision = None THEN None ELSE Some(Text(p.revision[1]))
                ELSE IF p.path = None THEN None ELSE Some(Text(p.path[1]))])

\* Remote.dict(by_alias=True, exclude_none=True)
RemoteDict(r) ==
    StrDict([k \in {"name", "url-base"} |->
                IF k = "name" THEN Some(Text(r.name)) ELSE r.url_base])

\* Defaults.dict(by_alias=True, exclude_none=True)
DefaultsDict(d) ==
    StrDict([k \in {"remote", "revision"} |->
                IF k = "remote" THEN IF d.remote = None THEN None ELSE Some(Text(d.remote[1]))
                ELSE IF d.revision = None THEN None ELSE Some(Text(d.revision[1]))])

\* Manifest(main, defaults, remotes, projects)
Manifest(main, defaults, remotes, projects) ==
    [main |-> main, defaults |-> defaults, remotes |-> remotes, projects |-> projects]

\* Manifest(): every field at its default
ManifestDefault == Manifest(Dep("main"), DefaultsNone, <<>>, <<>>)

\* Manifest.dict(by_alias=True, exclude_none=True)
ManifestDict(m) ==
    PyDict([k \in {"self", "defaults", "remotes", "projects"} |->
                IF k = "self" THEN ProjectDict(m.main)
                ELSE IF k = "defaults" THEN DefaultsDict(m.defaults)
                ELSE IF k = "remotes"
                  THEN PyList([i \in 1..Len(m.remotes) |-> RemoteDict(m.remotes[i])])
                ELSE PyList([i \in 1..Len(m.projects) |-> ProjectDict(m.projects[i])])])

\* Manifest.save: the text written to the file
SaveText(m) == YamlDump(PyDict([k \in {"manifest"} |-> ManifestDict(m)]))

\* A field that the input does not give
Missing == [t |-> "missing"]

\* The input of a field: by its alias, else by its name
\* (allow_population_by_field_name)
FieldInput(data, alias, name) ==
    IF alias \in DOMAIN data.keys THEN data.keys[alias]
    ELSE IF name \in DOMAIN data.keys THEN data.keys[name]
    ELSE Missing

\* What the validation of a field gives for an input of the wrong type
BadValue == <<"str", "type expected">>

\* pydantic's validation of an Optional[str] field: the text (a number is
\* taken as its digits), None, or BadValue for a list or a mapping
OptStr(input) ==
    IF input.t \in {"missing", "null"} THEN None
    ELSE IF input.t \in {"str", "int"} THEN Some(input.v)
    ELSE BadValue

\* An Optional[str] field kept as a plain string
OptName(input) ==
    LET o == OptStr(input)
    IN  IF Len(o) # 1 THEN o ELSE Some(Str(o[1]))

Invalid(details) == [ok |-> FALSE, details |-> details]

\* Project(**data), or a Project field given a dict
ParseProject(data) ==
    IF data.t # "dict" THEN Invalid("value is not a valid dict")
    ELSE LET name == OptName(FieldInput(data, "name", "name"))
             values == [name |-> name,
                        remote |-> OptName(FieldInput(data, "remote", "remote")),
                        sub_url |-> OptName(FieldInput(data, "sub-url", "sub_url")),
                        url |-> OptStr(FieldInput(data, "url", "url")),
                        revision |-> OptName(FieldInput(data, "revision", "revision")),
                        path |-> OptName(FieldInput(data, "path", "path"))]
         IN  IF name = None THEN Invalid("field required")
             ELSE IF \E f \in DOMAIN values : Len(values[f]) = 2
               THEN Invalid("str type expected")
             ELSE IF RemoteOrUrl(values) # "ok" THEN Invalid(RemoteOrUrl(values))
             ELSE [ok |-> TRUE, value |-> [values EXCEPT !.name = name[1]]]

\* Remote(**data)
ParseRemote(data) ==
    IF data.t # "dict" THEN Invalid("value is not a valid dict")
    ELSE LET name == OptName(FieldInput(data, "name", "name"))
             url_base == OptStr(FieldInput(data, "url-base", "url_base"))
         IN  IF name = None THEN Invalid("field required")
             ELSE IF Len(name) = 2 \/ Len(url_base) = 2 THEN Invalid("str type expected")
             ELSE [ok |-> TRUE, value |-> Remote(name[1], url_base)]

\* Defaults(**data)
ParseDefaults(data) ==
    IF data.t # "dict" THEN Invalid("value is not a valid dict")
    ELSE LET remote == OptName(FieldInput(data, "remote", "remote"))
             revision == OptName(FieldInput(data, "revision", "revision"))
         IN  IF Len(remote) = 2 \/ Len(revision) = 2 THEN Invalid("str type expected")
             ELSE [ok |-> TRUE, value |-> Defaults(remote, revision)]

\* A List[Remote] or List[Project] field: every item parsed, or the first
\* failure
ParseList(input, cls) ==
    IF input.t = "missing" THEN [ok |-> TRUE, value |-> <<>>]
    ELSE IF input.t # "list" THEN Invalid("value is not a valid list")
    ELSE LET items == [i \in 1..Len(input.items) |->
                          IF cls = "Remote" THEN ParseRemote(input.items[i])
                          ELSE ParseProject(input.items[i])]
             bad == {i \in 1..Len(items) : ~items[i].ok}
         IN  IF bad # {}
               THEN items[CHOOSE i \in bad : \A j \in bad : i <= j]
             ELSE [ok |-> TRUE, value |-> [i \in 1..Len(items) |-> items[i].value]]

\* cls(**manifestdata) of Manifest.load
ParseManifest(manifestdata) ==
    IF manifestdata.t # "dict"
      THEN [ok |-> FALSE, exception |-> "TypeError"]
    ELSE LET self == FieldInput(manifestdata, "self", "main")
             defaults == FieldInput(manifestdata, "defaults", "defaults")
             main == IF self.t = "missing" THEN [ok |-> TRUE, value |-> Dep("main")]
                     ELSE ParseProject(self)
             dflt == IF defaults.t = "missing" THEN [ok |-> TRUE, value |-> DefaultsNone]
                     ELSE ParseDefaults(defaults)
             remotes == ParseList(FieldInput(manifestdata, "remotes", "remotes"), "Remote")
             projects == ParseList(FieldInput(manifestdata, "projects", "projects"), "Project")
             parts == <<main, dflt, remotes, projects>>
             bad == {i \in 1..4 : ~parts[i].ok}
         IN  IF bad # {}
               THEN [ok |-> FALSE, exception |-> "ValidationError",
                     details |-> parts[CHOOSE i \in bad : \A j \in bad : i <= j].details]
             ELSE [ok |-> TRUE,
                   manifest |-> Manifest(main.value, dflt.value, remotes.value, projects.value)]

\* The whole document taken for the manifest
ManifestDataWhole(data) == [ok |-> TRUE, manifestdata |-> data]

\* data.get("manifest", {}): AttributeError when the document is no mapping
ManifestData(data) ==
    IF data.t # "dict" THEN [ok |-> FALSE, exception |-> "AttributeError"]
    ELSE [ok |-> TRUE,
          manifestdata |-> IF "manifest" \in DOMAIN data.keys THEN data.keys["manifest"]
                           ELSE PyEmptyDict]

\* Manifest.load over the text of the file: the manifest, or the exception
\* that leaves load
LoadYaml(content, path) ==
    IF content = None
      THEN [ok |-> FALSE, exception |-> "ManifestNotFoundError", path |-> path]
    ELSE LET y == YamlLoad(content[1])
         IN  IF ~y.ok THEN y
             ELSE LET md == ManifestData(y.data)
                  IN  IF ~md.ok THEN md ELSE ParseManifest(md.manifestdata)

---------------------------------------------------------------------------
(* URLs *)

\* The scheme-and-host segments that start an absolute URL
Hosts == {"https://example.com", "https://mirror.example"}

IsAbsolute(url) == url[1] \in Hosts

RECURSIVE JoinSegments(_, _)
\* The segments of `url` applied to the directory `base`: ".." leaves a
\* directory (never the host), "." and "" stay, a name enters
JoinSegments(base, url) ==
    IF url = <<>> THEN base
    ELSE LET s == Head(url)
             next == IF s = ".."
                       THEN IF Len(base) > 1 THEN SubSeq(base, 1, Len(base) - 1) ELSE base
                     ELSE IF s = "." \/ s = "" THEN base
                     ELSE Append(base, s)
         IN  JoinSegments(next, Tail(url))

\* A relative url resolved against refurl, refurl taken as a directory
UrlJoin(refurl, url) == IF IsAbsolute(url) THEN url ELSE JoinSegments(refurl, url)

\* Project.from_spec(defaults, remotes, spec, refurl): from_project, then
\* a relative url is resolved against refurl when there is one
FromSpec(defaults, remotes, spec, refurl) ==
    LET r == FromProject(defaults, remotes, spec)
    IN  IF r.ok /\ refurl # None /\ TruthyUrl(r.project.url)
          THEN [ok |-> TRUE,
                project |-> [r.project EXCEPT !.url = Some(UrlJoin(refurl[1], r.project.url[1]))]]
        ELSE r

---------------------------------------------------------------------------
(* Collaborators: the workspace and the Git adapter *)

\* workspace.info.main_path, relative to the workspace directory
MainPath == "main"

\* Git(project_path).get_url(): the upstream URL of the clone at `path`
GetUrl(path) ==
    IF path = "dep2" THEN <<"https://mirror.example", "fork", "dep2">>
    ELSE <<"https://example.com", "base", path>>

\* An adapter that reports every project cloned
IsClonedAlways(path) == TRUE

\* Git(project_path).is_cloned()
IsCloned(path) == path \in cloned

\* The manifest file in the project directory `path`
FileAt(path) == IF path \in DOMAIN files THEN files[path] ELSE None

---------------------------------------------------------------------------
(* iters.py: generator frames *)

NoError == [ok |-> TRUE]

Event(op, path) == [op |-> op, path |-> path]

\* One activation of __iter: its arguments, its locals, and where it stands
Frame(project_path, manifest, phase) ==
    [project_path |-> project_path, manifest |-> manifest, refurl |-> None,
     deps |-> <<>>, i |-> 1, j |-> 1, phase |-> phase]

Top == stack[Len(stack)]

SetTop(frame) == [stack EXCEPT ![Len(stack)] = frame]

Running == pc = "run" /\ stack # <<>>

\* The declaration the first loop of __iter stands at
AtDecl == Running /\ Top.phase = "scan" /\ Top.i <= Len(Top.manifest.dependencies)

CurDecl == Top.manifest.dependencies[Top.i]

\* dep.path of a declaration: project.path or project.name
DeclPath(spec) == OrElse(spec.path, Some(spec.name))[1]


---------------------------------------------------------------------------
(* iters.py: ProjectIter *)

\* Project(name=info.main_path.name, path=str(info.main_path))
MainProject == ResolvedProject(MainPath, MainPath, None, None)

\* The main project yielded whatever skip_main says
YieldsMainAlways(skip) == TRUE

\* `if not self.skip_main`
YieldsMain(skip) == ~skip

\* __iter__, up to its yield of the main project
ProjectIter_iter_main ==
    /\ kind = "project" /\ pc = "start"
    /\ IF YieldsMain(skip_main)
         THEN /\ out' = Append(out, MainProject)
              /\ log' = Append(log, Event("yield", MainPath))
         ELSE out' = out /\ log' = log
    /\ pc' = "load_root"
    /\ UNCHANGED <<files, cloned, kind, skip_main, resolve_url, done, stack, error, scanned>>
    /\ UNCHANGED <<consumer_vars, manifest_vars, appconfig_vars>>

\* __iter__, resumed: load the root manifest and enter __iter
ProjectIter_iter_root ==
    /\ kind = "project" /\ pc = "load_root"
    /\ LET r == LoadOrDefault(FileAt(MainPath), MainPath, MANIFEST_DEFAULT)
       IN  /\ log' = Append(log, Event("load", MainPath))
           /\ IF r.ok
                THEN /\ stack' = <<Frame(MainPath, r.manifest, "enter")>>
                     /\ pc' = "run"
                     /\ error' = error
                ELSE /\ stack' = stack
                     /\ pc' = "error"
                     /\ error' = r
    /\ UNCHANGED <<files, cloned, kind, skip_main, resolve_url, done, out, scanned>>
    /\ UNCHANGED <<consumer_vars, manifest_vars, appconfig_vars>>

\* The reference URL always taken from the main project
RefUrlPathMain(frame) == MainPath

\* The project path whose upstream URL __iter takes as refurl
RefUrlPath(frame) == frame.project_path

\* __iter, lines 79-87: the reference URL of this node
ProjectIter_enter ==
    /\ kind = "project" /\ Running /\ Top.phase = "enter"
    /\ IF ~resolve_url
         THEN /\ stack' = SetTop([Top EXCEPT !.phase = "scan"])
              /\ UNCHANGED <<pc, error, log>>
       ELSE IF ~IsCloned(RefUrlPath(Top))
         THEN /\ pc' = "error"
              /\ error' = [ok |-> FALSE, exception |-> "AssertionError",
                           path |-> RefUrlPath(Top)]
              /\ log' = Append(log, Event("is_cloned", RefUrlPath(Top)))
              /\ stack' = stack
       ELSE /\ stack' = SetTop([Top EXCEPT !.phase = "scan",
                                         !.refurl = Some(GetUrl(RefUrlPath(Top)))])
            /\ log' = log \o <<Event("is_cloned", RefUrlPath(Top)),
                               Event("get_url", RefUrlPath(Top))>>
            /\ UNCHANGED <<pc, error>>
    /\ UNCHANGED <<files, cloned, kind, skip_main, resolve_url, done, out, scanned>>
    /\ UNCHANGED <<consumer_vars, manifest_vars, appconfig_vars>>

\* The duplicate check that never finds a path
InDoneNever(path, visited) == FALSE

\* `dep.path in done`
InDone(path, visited) == \E k \in 1..Len(visited) : visited[k] = path

\* Visited projects recorded by name instead of path
DoneKeyName(dep) == dep.name

\* What `done` records of a resolved project: dep.path
DoneKey(dep) == dep.path

\* A declaration the first loop has resolved: the project whose manifest
\* declares it, its place in that manifest, and the resolved project
Scanned(frame, dep) == [owner |-> frame.project_path, index |-> frame.i, project |-> dep]

\* __iter, lines 89-100: one declaration of the first loop, up to its yield
ProjectIter_scan ==
    /\ kind = "project" /\ AtDecl
    /\ LET r == FromSpec(Top.manifest.defaults, Top.manifest.remotes, CurDecl, Top.refurl)
       IN  IF ~r.ok
             THEN /\ pc' = "error"
                  /\ error' = r
                  /\ UNCHANGED <<stack, done, out, log, scanned>>
           ELSE IF InDone(DoneKey(r.project), done)
             THEN /\ stack' = SetTop([Top EXCEPT !.i = @ + 1])
                  /\ log' = Append(log, Event("skip", r.project.path))
                  /\ scanned' = Append(scanned, Scanned(Top, r.project))
                  /\ UNCHANGED <<pc, error, done, out>>
           ELSE /\ done' = Append(done, DoneKey(r.project))
                /\ out' = Append(out, r.project)
                /\ log' = log \o <<Event("visit", r.project.path),
                                   Event("yield", r.project.path)>>
                /\ scanned' = Append(scanned, Scanned(Top, r.project))
                /\ stack' = SetTop([Top EXCEPT !.phase = "yielded"])
                /\ UNCHANGED <<pc, error>>
    /\ UNCHANGED <<files, cloned, kind, skip_main, resolve_url>>
    /\ UNCHANGED <<consumer_vars, manifest_vars, appconfig_vars>>

\* The children queued in reverse order
EnqueueFirst(deps, item) == <<item>> \o deps

\* deps.append(item): the children wait in the order they were found
Enqueue(deps, item) == Append(deps, item)

\* The project directory taken from the name of the dependency
DepProjectPathName(dep) == dep.name

\* dep_project_path = self.workspace.path / dep.path
DepProjectPath(dep) == dep.path

\* __iter, lines 102-106: resumed after the yield, load the dependency's manifest
ProjectIter_load_dep ==
    /\ kind = "project" /\ Running /\ Top.phase = "yielded"
    /\ LET dep_path == DepProjectPath(out[Len(out)])
           r == LoadOrDefault(FileAt(dep_path), dep_path, MANIFEST_DEFAULT)
       IN  /\ log' = Append(log, Event("load", dep_path))
           /\ IF ~r.ok
                THEN /\ pc' = "error"
                     /\ error' = r
                     /\ stack' = stack
              ELSE /\ stack' = SetTop([Top EXCEPT
                            !.phase = "scan",
                            !.i = @ + 1,
                            !.deps = IF r.manifest # MANIFEST_DEFAULT
                                       THEN Enqueue(@, [path |-> dep_path, manifest |-> r.manifest])
                                       ELSE @])
                   /\ UNCHANGED <<pc, error>>
    /\ UNCHANGED <<files, cloned, kind, skip_main, resolve_url, done, out, scanned>>
    /\ UNCHANGED <<consumer_vars, manifest_vars, appconfig_vars>>

\* The second loop entered as soon as a dependency is queued
AtChildEarly == Running /\ Top.phase = "scan" /\ Top.j <= Len(Top.deps)

\* The first loop is over and the second loop stands at deps[j]
AtChild == Running /\ Top.phase = "scan" /\ Top.i > Len(Top.manifest.dependencies)

\* __iter, lines 109-110: recurse into the next queued dependency
ProjectIter_recurse ==
    /\ kind = "project" /\ AtChild /\ Top.j <= Len(Top.deps)
    /\ stack' = Append(SetTop([Top EXCEPT !.j = @ + 1]),
                       Frame(Top.deps[Top.j].path, Top.deps[Top.j].manifest, "enter"))
    /\ UNCHANGED <<files, cloned, kind, skip_main, resolve_url, done, pc, error, out, log, scanned>>
    /\ UNCHANGED <<consumer_vars, manifest_vars, appconfig_vars>>

\* __iter returns: the generator frame ends, the caller's loop goes on
ProjectIter_return ==
    /\ kind = "project" /\ AtChild /\ Top.j > Len(Top.deps)
    /\ stack' = SubSeq(stack, 1, Len(stack) - 1)
    /\ pc' = IF Len(stack) = 1 THEN "done" ELSE pc
    /\ UNCHANGED <<files, cloned, kind, skip_main, resolve_url, done, error, out, log, scanned>>
    /\ UNCHANGED <<consumer_vars, manifest_vars, appconfig_vars>>

---------------------------------------------------------------------------
(* iters.py: ManifestIter *)

\* Manifest.from_spec(manifest_spec, path): the manifest with its location
\* and the project path of each dependency
ManifestFromSpec(manifest_spec, path) ==
    [path |-> path,
     dependencies |-> [k \in 1..Len(manifest_spec.dependencies) |->
                          [name |-> manifest_spec.dependencies[k].name,
                           path |-> DeclPath(manifest_spec.dependencies[k])]]]

\* __iter__: enter __iter at the main project and the root manifest
ManifestIter_iter ==
    /\ kind = "manifest" /\ pc = "start"
    /\ stack' = <<Frame(MainPath, MANIFEST_DEFAULT, "load")>>
    /\ pc' = "run"
    /\ UNCHANGED <<files, cloned, kind, skip_main, resolve_url, done, error, out, log, scanned>>
    /\ UNCHANGED <<consumer_vars, manifest_vars, appconfig_vars>>

\* __iter, lines 27-33: load the manifest and yield it
ManifestIter_load ==
    /\ kind = "manifest" /\ Running /\ Top.phase = "load"
    /\ LET r == Load(FileAt(Top.project_path), Top.project_path)
       IN  IF ~r.ok
             THEN /\ pc' = "error"
                  /\ error' = r
                  /\ log' = Append(log, Event("load", Top.project_path))
                  /\ UNCHANGED <<stack, out>>
           ELSE /\ stack' = SetTop([Top EXCEPT
                                !.phase = "scan",
                                !.manifest = ManifestFromSpec(r.manifest, Top.project_path)])
                /\ out' = Append(out, ManifestFromSpec(r.manifest, Top.project_path))
                /\ log' = log \o <<Event("load", Top.project_path),
                                   Event("yield", Top.project_path)>>
                /\ UNCHANGED <<pc, error>>
    /\ UNCHANGED <<files, cloned, kind, skip_main, resolve_url, done, scanned>>
    /\ UNCHANGED <<consumer_vars, manifest_vars, appconfig_vars>>

\* __iter, lines 35-48: one declaration of the first loop
ManifestIter_scan ==
    /\ kind = "manifest" /\ AtDecl
    /\ LET dep_project == CurDecl
       IN IF InDone(dep_project.path, done)
            THEN /\ stack' = SetTop([Top EXCEPT !.i = @ + 1])
                 /\ log' = Append(log, Event("skip", dep_project.path))
                 /\ done' = done
          ELSE /\ done' = Append(done, dep_project.path)
               /\ log' = log \o <<Event("visit", dep_project.path),
                                  Event("exists", dep_project.path)>>
               /\ stack' = SetTop([Top EXCEPT
                            !.i = @ + 1,
                            !.deps = IF FileAt(dep_project.path) # None
                                       THEN Enqueue(@, [path |-> dep_project.path])
                                       ELSE @])
    /\ UNCHANGED <<files, cloned, kind, skip_main, resolve_url, pc, error, out, scanned>>
    /\ UNCHANGED <<consumer_vars, manifest_vars, appconfig_vars>>

\* __iter, lines 51-52: recurse into the next queued manifest
ManifestIter_recurse ==
    /\ kind = "manifest" /\ AtChild /\ Top.j <= Len(Top.deps)
    /\ stack' = Append(SetTop([Top EXCEPT !.j = @ + 1]),
                       Frame(Top.deps[Top.j].path, MANIFEST_DEFAULT, "load"))
    /\ UNCHANGED <<files, cloned, kind, skip_main, resolve_url, done, pc, error, out, log, scanned>>
    /\ UNCHANGED <<consumer_vars, manifest_vars, appconfig_vars>>

\* __iter returns
ManifestIter_return ==
    /\ kind = "manifest" /\ AtChild /\ Top.j > Len(Top.deps)
    /\ stack' = SubSeq(stack, 1, Len(stack) - 1)
    /\ pc' = IF Len(stack) = 1 THEN "done" ELSE pc
    /\ UNCHANGED <<files, cloned, kind, skip_main, resolve_url, done, error, out, log, scanned>>
    /\ UNCHANGED <<consumer_vars, manifest_vars, appconfig_vars>>


---------------------------------------------------------------------------
(* The workspaces and walkers a run starts from *)

\* The project directories of the workspace
Dirs == {"main", "dep1", "dep2", "dep3", "dep4"}

\* The sequences over S of length at most n
SeqsUpTo(S, n) == UNION {[1..k -> S] : k \in 0..n}

\* A manifest file with only a dependency list
Plain(dependencies) == Some(ManifestSpec(DefaultsNone, <<>>, dependencies))

\* A workspace with manifest files in main, dep1 and dep2 only
Workspace(root, m1, m2) ==
    [d \in Dirs |-> IF d = "main" THEN root
                    ELSE IF d = "dep1" THEN m1
                    ELSE IF d = "dep2" THEN m2
                    ELSE None]

Rel(name) == Some(<<"..", name>>)

BaseUrl == <<"https://example.com", "base">>

AltUrl == <<"https://mirror.example", "fork">>

\* tests/fixtures.py, repos: main -> dep1, dep2 (1-feature); dep1 -> dep4;
\* dep2 -> dep3, dep4
FixtureFiles ==
    Workspace(
        Plain(<<ProjectSpec("dep1", None, None, Rel("dep1"), None, None),
                ProjectSpec("dep2", None, None, Rel("dep2"), Some("1-feature"), None)>>),
        Plain(<<ProjectSpec("dep4", None, None, Rel("dep4"), None, None)>>),
        Plain(<<ProjectSpec("dep3", None, None, Rel("dep3"), None, None),
                ProjectSpec("dep4", None, None, Rel("dep4"), None, None)>>))

\* Graph shapes: every manifest of main, dep1, dep2 is absent or declares
\* some of main, dep1, dep2 (cycles, self references, diamonds); the root
\* manifest holds up to MaxDeps declarations, dep1's one less, dep2's at
\* most one
GraphDecls == {Dep("main"), Dep("dep1"), Dep("dep2")}

GraphFiles ==
    {Workspace(root, m1, m2) :
        root \in {None} \cup {Plain(q) : q \in SeqsUpTo(GraphDecls, MaxDeps)},
        m1 \in {None} \cup {Plain(q) : q \in SeqsUpTo(GraphDecls, MaxDeps - 1)},
        m2 \in {None} \cup {Plain(q) : q \in [1..1 -> GraphDecls] \cup {<<>>}}}

\* Declarations that share a path but differ in name, url, revision or
\* remote, in a root manifest that knows the remote "origin"
VariedDecls ==
    {ProjectSpec("dep1", None, None, Rel("dep1"), None, None),
     ProjectSpec("dep1", Some("origin"), None, None, Some("v1"), None),
     ProjectSpec("lib", None, None, Rel("lib"), Some("v2"), Some("dep1")),
     ProjectSpec("dep1", Some("nowhere"), None, None, None, None),
     ProjectSpec("dep2", None, None, Rel("dep2"), None, None)}

VariedFiles ==
    {Workspace(Some(ManifestSpec(DefaultsNone, <<Remote("origin", Some(BaseUrl))>>, q)),
               sub[1], sub[2]) :
        q \in SeqsUpTo(VariedDecls, MaxDeps) \ {<<>>},
        sub \in {<<None, None>>,
                 <<Plain(<<ProjectSpec("dep4", None, None, Rel("dep4"), None, None)>>),
                   Plain(<<ProjectSpec("dep4", None, None, Rel("dep4"), Some("v4"), None)>>)>>,
                 <<Plain(<<ProjectSpec("dep2", Some("gone"), None, None, Some("v3"), None)>>),
                   None>>}}

\* One declaration with every combination of its fields, under every
\* combination of defaults and remote lists
FieldDecls ==
    {ProjectSpec("dep1", remote, sub_url, url, revision, path) :
        remote \in {None, Some(""), Some("origin"), Some("other")},
        sub_url \in {None, Some(""), Some("sub")},
        url \in {None, Some(<<"">>), Rel("dep1"), Some(AltUrl \o <<"dep1">>)},
        revision \in {None, Some("v1")},
        path \in {None, Some("dep3")}}

FieldDefaults ==
    {Defaults(remote, revision) :
        remote \in {None, Some("origin"), Some("nowhere")},
        revision \in {None, Some("v0")}}

FieldRemotes ==
    {<<>>,
     <<Remote("origin", Some(BaseUrl))>>,
     <<Remote("origin", Some(BaseUrl)), Remote("origin", Some(AltUrl))>>,
     <<Remote("other", None), Remote("origin", Some(AltUrl))>>}

FieldFiles ==
    {Workspace(Some(ManifestSpec(defaults, remotes, <<decl>>)), None, None) :
        defaults \in FieldDefaults, remotes \in FieldRemotes, decl \in FieldDecls}

\* The root manifest declares the main project itself
SelfDeclaringFiles == Workspace(Plain(<<Dep("main"), Dep("dep1")>>), Plain(<<Dep("dep2")>>), None)

\* A root manifest whose first declaration has the empty string as name
\* and no path of its own
UnnamedFiles ==
    {Workspace(Plain(<<ProjectSpec("", None, None, None, None, path), Dep("dep1")>>),
               None, None) :
        path \in {None, Some("")}}

Walker(k, skip, resolve) == [kind |-> k, skip_main |-> skip, resolve_url |-> resolve]

ManifestWalker == Walker("manifest", FALSE, FALSE)

ProjectWalkers == {Walker("project", skip, resolve) : skip \in BOOLEAN, resolve \in BOOLEAN}

\* What the Git adapter reports cloned
ClonedChoices == {Dirs, Dirs \ {"dep1"}}

Scenario(f, w, c) == [files |-> f, walker |-> w, cloned |-> c]

Scenarios ==
    {Scenario(f, w, Dirs) :
        f \in GraphFiles,
        w \in {ManifestWalker} \cup {Walker("project", skip, FALSE) : skip \in BOOLEAN}}
    \cup
    {Scenario(f, w, IF w.resolve_url THEN c ELSE Dirs) :
        f \in VariedFiles,
        w \in {ManifestWalker} \cup ProjectWalkers,
        c \in ClonedChoices}
    \cup
    {Scenario(FixtureFiles, w, IF w.resolve_url THEN c ELSE Dirs) :
        w \in {ManifestWalker} \cup ProjectWalkers,
        c \in ClonedChoices \cup {{}}}
    \cup
    {Scenario(f, Walker("project", TRUE, FALSE), Dirs) : f \in FieldFiles}
    \cup
    {Scenario(f, w, Dirs) :
        f \in UnnamedFiles, w \in {ManifestWalker, Walker("project", FALSE, FALSE)}}
    \cup
    {Scenario(SelfDeclaringFiles, Walker("project", skip, TRUE), Dirs) : skip \in BOOLEAN}

\* A consumer with a single walker instance
OneWalker == active = 1 /\ parked = <<>> /\ solo = <<>> /\ upstream = <<>>

\* manifest.py is used by the walker only
NoManifestCalls == disk = None /\ returned = <<>> /\ project_filter = None /\ calls = <<>>

\* No AppConfig instance is constructed
NoAppConfig == appconfig = None /\ config_files = <<>> /\ merged_config = None /\ last_call = None

Init ==
    \E sc \in Scenarios :
        /\ files = sc.files
        /\ cloned = sc.cloned
        /\ kind = sc.walker.kind
        /\ skip_main = sc.walker.skip_main
        /\ resolve_url = sc.walker.resolve_url
        /\ done = <<>>
        /\ stack = <<>>
        /\ pc = "start"
        /\ error = NoError
        /\ out = <<>>
        /\ log = <<>>
        /\ scanned = <<>>
        /\ OneWalker /\ NoManifestCalls /\ NoAppConfig

Next ==
    \/ ProjectIter_iter_main
    \/ ProjectIter_iter_root
    \/ ProjectIter_enter
    \/ ProjectIter_scan
    \/ ProjectIter_load_dep
    \/ ProjectIter_recurse
    \/ ProjectIter_return
    \/ ManifestIter_iter
    \/ ManifestIter_load
    \/ ManifestIter_scan
    \/ ManifestIter_recurse
    \/ ManifestIter_return

Spec == Init /\ [][Next]_vars

\* The consumer keeps asking for the next element: every enabled step of
\* the running generator is eventually taken
FairSpec == Spec /\ WF_vars(Next)


---------------------------------------------------------------------------
(* Manifest.save and Manifest.load called on manifest files *)

\* No walker instance is constructed
NoWalker ==
    /\ files = <<>> /\ cloned = {} /\ kind = "none"
    /\ skip_main = FALSE /\ resolve_url = FALSE
    /\ done = <<>> /\ stack = <<>> /\ pc = "start" /\ error = NoError
    /\ out = <<>> /\ log = <<>> /\ scanned = <<>>

\* The manifest files of two project directories
ManifestPaths == {"main", "dep1"}

\* Declarations whose values yaml could take for something else than a
\* string: empty, "null", a number
DocDecls ==
    {Dep("dep1"),
     ProjectSpec("dep1", Some("origin"), Some("sub"), None, Some("1"), None),
     ProjectSpec("dep2", None, None, Rel("dep2"), Some("null"), Some("")),
     ProjectSpec("null", Some("origin"), None, None, Some(""), Some("dep3")),
     ProjectSpec("dep4", None, None, Some(<<"">>), None, Some("1"))}

\* The valid Manifest objects that are saved
Documents ==
    {Manifest(main, defaults, remotes, projects) :
        main \in {Dep("main"),
                  ProjectSpec("top", None, None, Some(BaseUrl \o <<"top">>), Some("v1"), Some("main"))},
        defaults \in {DefaultsNone, Defaults(Some("origin"), Some("1"))},
        remotes \in {<<>>, <<Remote("origin", Some(BaseUrl)), Remote("null", None)>>},
        projects \in SeqsUpTo(DocDecls, MaxDeps)}

YamlMap(items) == [t |-> "map", keys |-> items]

YamlSeq(items) == [t |-> "seq", items |-> items]

YamlPlain(s) == Scalar("plain", Text(s))

\* Files as an editor leaves them
HandWritten ==
    {\* no YAML at all
     [t |-> "invalid"],
     \* an empty file
     YamlPlain(""),
     \* a list at top level
     YamlSeq(<<YamlPlain("manifest")>>),
     \* a mapping without the key manifest
     YamlMap("version" :> YamlPlain("1")),
     \* manifest: null
     YamlMap("manifest" :> YamlPlain("null")),
     \* a dependency with remote and url
     YamlMap("manifest" :> YamlMap("projects" :> YamlSeq(<<
         YamlMap("name" :> YamlPlain("dep1") @@ "remote" :> YamlPlain("origin")
                 @@ "url" :> Scalar("plain", <<"..", "dep1">>))>>))),
     \* a dependency without name
     YamlMap("manifest" :> YamlMap("projects" :> YamlSeq(<<
         YamlMap("path" :> YamlPlain("dep1"))>>))),
     \* projects is no list
     YamlMap("manifest" :> YamlMap("projects" :> YamlPlain("dep1"))),
     \* field names instead of aliases, a number as revision
     YamlMap("manifest" :> YamlMap(
         "main" :> YamlMap("name" :> YamlPlain("top"))
         @@ "remotes" :> YamlSeq(<<YamlMap("name" :> YamlPlain("origin")
                                           @@ "url_base" :> Scalar("plain", BaseUrl))>>)
         @@ "projects" :> YamlSeq(<<YamlMap("name" :> YamlPlain("dep1")
                                            @@ "remote" :> YamlPlain("origin")
                                            @@ "sub_url" :> YamlPlain("sub")
                                            @@ "revision" :> YamlPlain("1"))>>)))}

ManifestFileInit ==
    /\ \E content \in {None} \cup {Some(text) : text \in HandWritten}, p \in ManifestPaths :
          disk = [q \in ManifestPaths |-> IF q = p THEN content ELSE None]
    /\ returned = <<>>
    /\ project_filter = None /\ calls = <<>>
    /\ NoWalker /\ OneWalker /\ NoAppConfig

\* manifest.save(path)
Manifest_save ==
    /\ returned = <<>>
    /\ \E manifest \in Documents, path \in ManifestPaths :
          /\ disk' = [disk EXCEPT ![path] = Some(SaveText(manifest))]
          /\ returned' = <<[op |-> "save", path |-> path, manifest |-> manifest]>>
    /\ UNCHANGED <<project_filter, calls, walker_vars, consumer_vars, appconfig_vars>>

\* Manifest.load(path)
Manifest_load ==
    /\ returned = <<>> \/ (Len(returned) = 1 /\ returned[1].op = "save")
    /\ \E path \in ManifestPaths :
          returned' = Append(returned, [op |-> "load", path |-> path,
                                        result |-> LoadYaml(disk[path], path)])
    /\ UNCHANGED <<disk, project_filter, calls, walker_vars, consumer_vars, appconfig_vars>>

ManifestFileNext ==
    \/ Manifest_save
    \/ Manifest_load

ManifestFileSpec == ManifestFileInit /\ [][ManifestFileNext]_vars

---------------------------------------------------------------------------
(* manifest.py: create_project_filter *)

\* Python values a path comes as: a str, a pathlib.Path, None.  A Path and
\* a str never compare equal
PathValue(cls, s) == [cls |-> cls, s |-> s]

NoneValue == [cls |-> "NoneType"]

\* project.path of a Project: Optional[str]
PathOf(project) ==
    IF project.path = None THEN NoneValue ELSE PathValue("str", project.path[1])

\* `if project_paths is not None`
PathsGiven(project_paths) == project_paths # None

\* `if project_paths`: the list is given and not empty
PathsTruthy(project_paths) == project_paths # None /\ project_paths[1] # <<>>

\* create_project_filter(project_paths): which of the two lambdas is
\* returned, and the list the first one closes over
CreateProjectFilter(project_paths) ==
    [by_path |-> PathsTruthy(project_paths), initialized_project_paths |-> project_paths]

\* `project.path in initialized_project_paths`
InPaths(value, paths) == \E i \in 1..Len(paths) : paths[i] = value

\* filter(project)
CallFilter(filter, project) ==
    IF filter.by_path
      THEN InPaths(PathOf(project), filter.initialized_project_paths[1])
    ELSE TRUE

\* The entries of a list of allowed paths
AllowedEntries ==
    {PathValue("str", "dep1"), PathValue("str", "dep2"), PathValue("Path", "dep1")}

\* The arguments of create_project_filter: nothing, or a list
PathLists == {None} \cup {Some(q) : q \in SeqsUpTo(AllowedEntries, MaxPaths)}

\* The projects a filter is called with
FilterProjects ==
    {Dep("dep3"),
     ProjectSpec("dep1", None, None, None, None, Some("dep1")),
     ProjectSpec("lib", None, None, None, None, Some("dep2"))}

FilterInit ==
    /\ project_filter = None /\ calls = <<>>
    /\ disk = None /\ returned = <<>>
    /\ NoWalker /\ OneWalker /\ NoAppConfig

\* create_project_filter(project_paths)
Create_project_filter ==
    /\ project_filter = None
    /\ \E project_paths \in PathLists :
          project_filter' = Some(CreateProjectFilter(project_paths))
    /\ UNCHANGED <<calls, disk, returned, walker_vars, consumer_vars, appconfig_vars>>

\* One call of the filter
Call_project_filter ==
    /\ project_filter # None /\ Len(calls) < MaxCalls
    /\ \E project \in FilterProjects :
          calls' = Append(calls, [project |-> project,
                                  result |-> CallFilter(project_filter[1], project)])
    /\ UNCHANGED <<project_filter, disk, returned, walker_vars, consumer_vars, appconfig_vars>>

FilterNext ==
    \/ Create_project_filter
    \/ Call_project_filter

FilterSpec == FilterInit /\ [][FilterNext]_vars

---------------------------------------------------------------------------
(* A consumer that holds two walker instances and pulls from either *)

\* ProjectIter(...) / ManifestIter(...): a new instance over a workspace
Instance(f, c, w) ==
    [files |-> f, cloned |-> c,
     kind |-> w.kind, skip_main |-> w.skip_main, resolve_url |-> w.resolve_url,
     done |-> <<>>, stack |-> <<>>, pc |-> "start", error |-> NoError,
     out |-> <<>>, log |-> <<>>, scanned |-> <<>>]

\* The instance the consumer pulls from, as it stands
Self ==
    [files |-> files, cloned |-> cloned,
     kind |-> kind, skip_main |-> skip_main, resolve_url |-> resolve_url,
     done |-> done, stack |-> stack, pc |-> pc, error |-> error,
     out |-> out, log |-> log, scanned |-> scanned]

\* One list shared by every instance: the list as the last instance left it
SharedDone(own, last) == last

\* self.__done = []: the list an instance works on is its own
OwnDone(own, last) == own

\* The consumer turns to the instance `w`
Resume(w) ==
    /\ files' = w.files /\ cloned' = w.cloned
    /\ kind' = w.kind /\ skip_main' = w.skip_main /\ resolve_url' = w.resolve_url
    /\ done' = OwnDone(w.done, done)
    /\ stack' = w.stack /\ pc' = w.pc /\ error' = w.error
    /\ out' = w.out /\ log' = w.log /\ scanned' = w.scanned

\* dep1 and dep2 declare each other
CycleFiles == Workspace(Plain(<<Dep("dep1")>>), Plain(<<Dep("dep2")>>), Plain(<<Dep("dep1")>>))

\* The second declaration names a remote the manifest lacks
UnknownRemoteFiles ==
    Workspace(Plain(<<ProjectSpec("dep2", None, None, Rel("dep2"), None, None),
                      ProjectSpec("dep1", Some("nowhere"), None, None, None, None)>>),
              None, Plain(<<Dep("dep3")>>))

\* The instances a consumer holds
Instances ==
    {Instance(FixtureFiles, Dirs, Walker("project", FALSE, FALSE)),
     Instance(FixtureFiles, Dirs, Walker("project", TRUE, TRUE)),
     Instance(FixtureFiles, Dirs, ManifestWalker),
     Instance(SelfDeclaringFiles, Dirs, ManifestWalker),
     Instance(CycleFiles, Dirs, Walker("project", TRUE, FALSE)),
     Instance(UnknownRemoteFiles, Dirs, Walker("project", FALSE, FALSE))}

TwoWalkersInit ==
    /\ \E a, b \in Instances :
          /\ parked = <<a, b>>
          /\ files = a.files /\ cloned = a.cloned
          /\ kind = a.kind /\ skip_main = a.skip_main /\ resolve_url = a.resolve_url
          /\ done = a.done /\ stack = a.stack /\ pc = a.pc /\ error = a.error
          /\ out = a.out /\ log = a.log /\ scanned = a.scanned
    /\ active = 1 /\ solo = <<>> /\ upstream = <<>>
    /\ NoManifestCalls /\ NoAppConfig

\* The instance that ran alone has ended: the consumer keeps what it got
\* and constructs the next instance; after both have run alone it
\* constructs the two instances it will pull from in turns
Consumer_next_alone ==
    /\ Len(solo) < 2 /\ pc \in {"done", "error"}
    /\ solo' = Append(solo, [out |-> out, error |-> error])
    /\ active' = IF Len(solo) = 0 THEN 2 ELSE 1
    /\ Resume(parked[active'])
    /\ UNCHANGED <<parked, upstream, manifest_vars, appconfig_vars>>

\* The consumer leaves the running instance where it stands and pulls
\* from the other one
Consumer_switch ==
    /\ Len(solo) = 2
    /\ parked[3 - active].pc \notin {"done", "error"}
    /\ parked' = [parked EXCEPT ![active] = Self]
    /\ active' = 3 - active
    /\ Resume(parked[3 - active])
    /\ UNCHANGED <<solo, upstream, manifest_vars, appconfig_vars>>

TwoWalkersNext ==
    \/ ProjectIter_iter_main
    \/ ProjectIter_iter_root
    \/ ProjectIter_enter
    \/ ProjectIter_scan
    \/ ProjectIter_load_dep
    \/ ProjectIter_recurse
    \/ ProjectIter_return
    \/ ManifestIter_iter
    \/ ManifestIter_load
    \/ ManifestIter_scan
    \/ ManifestIter_recurse
    \/ ManifestIter_return
    \/ Consumer_next_alone
    \/ Consumer_switch

TwoWalkersSpec == TwoWalkersInit /\ [][TwoWalkersNext]_vars

---------------------------------------------------------------------------
(* A consumer that iterates one walker instance twice *)

\* A visited list made anew for every iteration
DoneFresh(visited) == <<>>

\* done = self.__done: __iter works on the list __init__ made
DoneAtIter(visited) == visited

\* The iteration has ended; the consumer keeps what it got and calls
\* iter() on the same instance again: a new generator, the same __done
Consumer_iter_again ==
    /\ solo = <<>> /\ pc \in {"done", "error"}
    /\ solo' = <<[out |-> out, error |-> error]>>
    /\ done' = DoneAtIter(done)
    /\ pc' = "start" /\ stack' = <<>> /\ error' = NoError
    /\ out' = <<>> /\ log' = <<>> /\ scanned' = <<>>
    /\ UNCHANGED <<files, cloned, kind, skip_main, resolve_url>>
    /\ UNCHANGED <<active, parked, upstream, manifest_vars, appconfig_vars>>

ReuseNext ==
    \/ ProjectIter_iter_main
    \/ ProjectIter_iter_root
    \/ ProjectIter_enter
    \/ ProjectIter_scan
    \/ ProjectIter_load_dep
    \/ ProjectIter_recurse
    \/ ProjectIter_return
    \/ ManifestIter_iter
    \/ ManifestIter_load
    \/ ManifestIter_scan
    \/ ManifestIter_recurse
    \/ ManifestIter_return
    \/ Consumer_iter_again

ReuseSpec == Init /\ [][ReuseNext]_vars

---------------------------------------------------------------------------
(* A consumer that clones every project when it is yielded *)

\* The last element the walker yielded is a dependency that is not
\* cloned yet
CloneDue ==
    /\ kind = "project" /\ Running /\ Top.phase = "yielded"
    /\ out[Len(out)].path \notin cloned

\* Upstream the projects hold the manifests of a graph shape, of the
\* fixture, or of a workspace whose root declares "lib" at the path dep1;
\* only the main project is cloned, so only its manifest is on disk
CloneInit ==
    /\ \E f \in GraphFiles \cup
                {FixtureFiles,
                 Workspace(Plain(<<ProjectSpec("lib", None, None, None, None, Some("dep1")),
                                   Dep("dep2")>>),
                           Plain(<<Dep("dep3")>>), Plain(<<Dep("dep1")>>))},
          w \in ProjectWalkers :
          /\ upstream = f
          /\ files = [d \in Dirs |-> IF d = MainPath THEN f[d] ELSE None]
          /\ kind = w.kind /\ skip_main = w.skip_main /\ resolve_url = w.resolve_url
    /\ cloned = {MainPath}
    /\ done = <<>> /\ stack = <<>> /\ pc = "start" /\ error = NoError
    /\ out = <<>> /\ log = <<>> /\ scanned = <<>>
    /\ active = 1 /\ parked = <<>> /\ solo = <<>>
    /\ NoManifestCalls /\ NoAppConfig

\* The generator is suspended at `yield dep`: the consumer clones the
\* project it was handed, which brings the project's files to its path
Consumer_clone ==
    /\ CloneDue
    /\ cloned' = cloned \cup {out[Len(out)].path}
    /\ files' = [files EXCEPT ![out[Len(out)].path] = upstream[out[Len(out)].path]]
    /\ UNCHANGED <<kind, skip_main, resolve_url, done, stack, pc, error, out, log, scanned>>
    /\ UNCHANGED <<consumer_vars, manifest_vars, appconfig_vars>>

\* The consumer asks for the next element only after it has cloned
CloneNext ==
    \/ ProjectIter_iter_main
    \/ ProjectIter_iter_root
    \/ ProjectIter_enter
    \/ ProjectIter_scan
    \/ ~CloneDue /\ ProjectIter_load_dep
    \/ ProjectIter_recurse
    \/ ProjectIter_return
    \/ Consumer_clone

CloneSpec == CloneInit /\ [][CloneNext]_vars

---------------------------------------------------------------------------
(* appconfig.py: AppConfig *)

\* AppConfigLocation
Locations == <<"SYSTEM", "USER", "WORKSPACE">>

\* The options of AppConfigData
ConfigOptions == {"manifest_path", "color_ui"}

\* AppConfigData(**values): every option, None when it is not given
AppConfigData(values) ==
    [o \in ConfigOptions |-> IF o \in DOMAIN values THEN values[o] ELSE None]

\* AppConfigData()
AppConfigUnset == [o \in ConfigOptions |-> None]

\* AppConfigData.defaults()
ConfigDefaults == [o \in ConfigOptions |-> Some("default")]

\* A configuration file: unparsable, or the keys it sets
ConfigFile(broken, keys) == [broken |-> broken, keys |-> keys]

\* Without workspace the workspace configuration is kept with the user's
ConfigFilePathFallback(cfg, location) ==
    IF location = "WORKSPACE" /\ cfg.workspace_config_dir = None
      THEN [ok |-> TRUE, path |-> "USER"]
    ELSE [ok |-> TRUE, path |-> location]

\* AppConfig._get_config_file_path
GetConfigFilePath(cfg, location) ==
    IF location = "WORKSPACE" /\ cfg.workspace_config_dir = None
      THEN [ok |-> FALSE, exception |-> "UninitializedError"]
    ELSE [ok |-> TRUE, path |-> location]

\* AppConfig._load_config_from_path: a missing file is an empty document
LoadConfigFromPath(file, path) ==
    IF file = None THEN [ok |-> TRUE, doc |-> AppConfigUnset]
    ELSE IF file[1].broken
      THEN [ok |-> FALSE, exception |-> "InvalidConfigurationFileError", path |-> path]
    ELSE [ok |-> TRUE, doc |-> file[1].keys]

\* AppConfig._load: the document, and the files read for it
LoadDocument(cfg, cfiles, location) ==
    LET p == GetConfigFilePath(cfg, location)
    IN  IF ~p.ok THEN [ok |-> FALSE, exception |-> p.exception, reads |-> <<>>]
        ELSE LET r == LoadConfigFromPath(cfiles[p.path], p.path)
             IN  IF r.ok THEN [ok |-> TRUE, doc |-> r.doc, path |-> p.path, reads |-> <<p.path>>]
                 ELSE [ok |-> FALSE, exception |-> r.exception, path |-> p.path,
                       reads |-> <<p.path>>]

\* AppConfig.load: UninitializedError gives a configuration without values
LoadLocation(cfg, cfiles, location) ==
    LET r == LoadDocument(cfg, cfiles, location)
    IN  IF ~r.ok /\ r.exception = "UninitializedError"
          THEN [ok |-> TRUE, value |-> AppConfigUnset, reads |-> r.reads]
        ELSE IF ~r.ok THEN r
        ELSE [ok |-> TRUE, value |-> AppConfigData(r.doc), reads |-> r.reads]

\* An update that takes over unset options too
UpdateAll(merged, config) == config

\* merged.update(config.dict(exclude_none=True))
Update(merged, config) ==
    [o \in ConfigOptions |-> IF config[o] # None THEN config[o] ELSE merged[o]]

\* AppConfig._fill_in_defaults
FillInDefaults(config) ==
    [o \in ConfigOptions |-> IF config[o] = None THEN ConfigDefaults[o] ELSE config[o]]

\* _EnvAppConfigData(): the options the environment sets
EnvConfig(cfg) == AppConfigData(cfg.environ)

\* The body of AppConfig.options when nothing is cached: the merged
\* configuration, or the exception of the first load that fails
MergeConfig(cfg, cfiles) ==
    LET loaded == [i \in 1..3 |-> LoadLocation(cfg, cfiles, Locations[i])]
        bad == {i \in 1..3 : ~loaded[i].ok}
        first == CHOOSE i \in bad : \A j \in bad : i <= j
        files_merged == Update(Update(Update(AppConfigUnset, loaded[1].value),
                                      loaded[2].value), loaded[3].value)
        merged == IF cfg.use_config_from_env
                    THEN Update(files_merged, EnvConfig(cfg))
                  ELSE files_merged
    IN  IF bad # {}
          THEN [ok |-> FALSE, exception |-> loaded[first].exception,
                reads |-> [i \in 1..first |-> loaded[i].reads[1]]]
        ELSE [ok |-> TRUE, value |-> FillInDefaults(merged),
              reads |-> loaded[1].reads \o loaded[2].reads \o loaded[3].reads]

\* A save that keeps the merged configuration
CacheKept(cache) == cache

\* self._merged_config = None at the end of save
CacheAfterSave(cache) == None

\* The document of save after its loop: every option of `config` set or
\* deleted
SavedDocument(doc, config) == [o \in ConfigOptions |-> config[o]]

\* What the sources hold: a source sets no option, one, or both, each to
\* a value of its own
SourceValues(v) ==
    {AppConfigUnset,
     AppConfigData("manifest_path" :> Some(v)),
     AppConfigData("manifest_path" :> Some(v) @@ "color_ui" :> Some(v))}

FilesOf(v) == {None} \cup {Some(ConfigFile(FALSE, keys)) : keys \in SourceValues(v)}

\* The configurations a caller saves
SavedConfigs ==
    {AppConfigUnset,
     AppConfigData("color_ui" :> Some("saved")),
     AppConfigData("manifest_path" :> Some("saved") @@ "color_ui" :> Some("saved"))}

\* AppConfig(...): with or without workspace, with or without environment
AppConfigs ==
    {[use_config_from_env |-> use, workspace_config_dir |-> dir, environ |-> env] :
        use \in BOOLEAN,
        dir \in {None, Some("workspace/.anyrepo")},
        env \in {AppConfigUnset, AppConfigData("color_ui" :> Some("env")),
                AppConfigData("manifest_path" :> Some("env") @@ "color_ui" :> Some("env"))}}

AppConfigInit ==
    /\ appconfig \in AppConfigs
    /\ \E sys \in FilesOf("system"),
          user \in FilesOf("user") \cup {Some(ConfigFile(TRUE, AppConfigUnset))},
          ws \in FilesOf("workspace") :
          /\ appconfig.workspace_config_dir = None => ws = None
          /\ ~appconfig.use_config_from_env => appconfig.environ = AppConfigUnset
          /\ config_files = [l \in {"SYSTEM", "USER", "WORKSPACE"} |->
                                IF l = "SYSTEM" THEN sys ELSE IF l = "USER" THEN user ELSE ws]
    /\ merged_config = None
    /\ last_call = None
    /\ NoWalker /\ OneWalker /\ NoManifestCalls

\* config.options
AppConfig_options ==
    /\ IF merged_config # None
         THEN /\ last_call' = Some([op |-> "options", ok |-> TRUE, reads |-> <<>>,
                                    value |-> merged_config[1]])
              /\ merged_config' = merged_config
       ELSE LET r == MergeConfig(appconfig, config_files)
            IN  /\ last_call' = Some([op |-> "options"] @@ r)
                /\ merged_config' = IF r.ok THEN Some(r.value) ELSE None
    /\ UNCHANGED <<appconfig, config_files, walker_vars, consumer_vars, manifest_vars>>

\* config.load(location)
AppConfig_load ==
    /\ \E i \in 1..3 :
          last_call' = Some([op |-> "load", location |-> Locations[i]]
                            @@ LoadLocation(appconfig, config_files, Locations[i]))
    /\ UNCHANGED <<appconfig, config_files, merged_config,
                   walker_vars, consumer_vars, manifest_vars>>

\* config.save(config, location)
AppConfig_save ==
    /\ \E config \in SavedConfigs, i \in 1..3 :
          LET r == LoadDocument(appconfig, config_files, Locations[i])
          IN  IF ~r.ok
                THEN /\ last_call' = Some([op |-> "save", location |-> Locations[i]] @@ r)
                     /\ UNCHANGED <<config_files, merged_config>>
              ELSE /\ config_files' = [config_files EXCEPT
                          ![r.path] = Some(ConfigFile(FALSE, SavedDocument(r.doc, config)))]
                   /\ merged_config' = CacheAfterSave(merged_config)
                   /\ last_call' = Some([op |-> "save", location |-> Locations[i],
                                         ok |-> TRUE, reads |-> r.reads])
    /\ UNCHANGED <<appconfig, walker_vars, consumer_vars, manifest_vars>>

AppConfigNext ==
    \/ AppConfig_options
    \/ AppConfig_load
    \/ AppConfig_save

AppConfigSpec == AppConfigInit /\ [][AppConfigNext]_vars

---------------------------------------------------------------------------
(* Vocabulary of the properties *)

Terminated == pc \in {"done", "error"}

\* The root manifest has been read
RootLoaded == pc \in {"run", "done", "error"}

\* The dependency entries processed without skipping so far
Visits == {k \in 1..Len(log) : log[k].op = "visit"}

\* The manifests present in the workspace
Manifests == {files[d][1] : d \in {x \in DOMAIN files : files[x] # None}}

\* The distinct paths the manifest files declare
DeclaredPaths ==
    UNION {{DeclPath(m.dependencies[k]) : k \in 1..Len(m.dependencies)} : m \in Manifests}

\* The names of the yielded projects, in order
NamesOf(seq) == [k \in 1..Len(seq) |-> seq[k].name]

---------------------------------------------------------------------------
(* C1: in one ProjectIter traversal no two yielded projects have the same  *)
(* path, the main project that is yielded first counted.                   *)
C1_NoPathYieldedTwice ==
    kind = "project" =>
        \A a, b \in 1..Len(out) : a # b => out[a].path # out[b].path

(* C2: in one ManifestIter traversal the manifest of a project path is     *)
(* yielded at most once, the root manifest of the main project counted.    *)
C2_NoManifestYieldedTwice ==
    kind = "manifest" =>
        \A a, b \in 1..Len(out) : a # b => out[a].path # out[b].path

(* C3: a traversal by either walker terminates, cycles among the manifest  *)
(* files included, and the dependency entries it processes without         *)
(* skipping never outnumber the distinct declared paths.                   *)
C3_Terminates ==
    /\ <>Terminated
    /\ [](Cardinality(Visits) <= Cardinality(DeclaredPaths))

\* A traversal over manifests that declare each other in a cycle has ended
\* normally, having visited both paths of the cycle
C3_CycleWitness ==
    /\ pc = "done"
    /\ files["dep1"] = Plain(<<Dep("dep2")>>)
    /\ files["dep2"] = Plain(<<Dep("dep1")>>)
    /\ done = <<"dep1", "dep2">>
    /\ \E k \in 1..Len(log) : log[k] = Event("skip", "dep1")

(* C4: on the diamond workspace of the test fixture ProjectIter with       *)
(* skip_main=false yields main, dep1, dep2, dep4, dep3 in this order, dep2 *)
(* with revision "1-feature" and every other project without revision.     *)
C4_FixtureSequence ==
    (files = FixtureFiles /\ kind = "project" /\ ~skip_main /\ pc = "done") =>
        /\ NamesOf(out) = <<"main", "dep1", "dep2", "dep4", "dep3">>
        /\ [k \in 1..Len(out) |-> out[k].path] = NamesOf(out)
        /\ \A k \in 1..Len(out) :
              out[k].revision = IF out[k].name = "dep2" THEN Some("1-feature") ELSE None

\* The traversal of the fixture has ended normally, dep4 skipped once
C4_FixtureWitness ==
    /\ files = FixtureFiles /\ kind = "project" /\ ~skip_main /\ pc = "done"
    /\ Len(out) = 5
    /\ \E k \in 1..Len(log) : log[k] = Event("skip", "dep4")

(* C5: with skip_main false the first thing ProjectIter does is yield the  *)
(* main project (name and path of the workspace's main path), before the   *)
(* root manifest is read and before any dependency; with skip_main true    *)
(* the first thing it does is read the root manifest, and the first        *)
(* element, if any, is the first dependency of the root manifest.          *)
C5_MainFirst ==
    (kind = "project" /\ pc # "start") =>
        IF ~skip_main
          THEN /\ log # <<>> /\ log[1] = Event("yield", MainPath)
               /\ out[1].name = MainPath /\ out[1].path = MainPath
               /\ Len(log) >= 2 => log[2] = Event("load", MainPath)
          ELSE /\ log # <<>> => log[1] = Event("load", MainPath)
               /\ out # <<>> =>
                    /\ scanned # <<>>
                    /\ scanned[1].owner = MainPath /\ scanned[1].index = 1
                    /\ out[1] = scanned[1].project
                    /\ out[1].name = files[MainPath][1].dependencies[1].name
                    /\ out[1].path = DeclPath(files[MainPath][1].dependencies[1])

\* Both cases have happened: the main project came before a dependency,
\* or the first element is a dependency because the main project is skipped
C5_MainFirstWitness ==
    /\ kind = "project" /\ ~skip_main /\ Len(out) >= 2 /\ out[2].path = "dep1"

C5_SkipMainWitness ==
    /\ kind = "project" /\ skip_main /\ Len(out) >= 1 /\ out[1].path = "dep1"


---------------------------------------------------------------------------
(* Vocabulary of the declaration properties *)

\* A field is set: it is given and not empty
IsSet(o) == o # None /\ o # Some("")

IsSetUrl(o) == o # None /\ o # Some(<<"">>)

\* The declaration and the manifest behind an entry of `scanned`
DeclOf(e) == files[e.owner][1].dependencies[e.index]

ManifestOf(e) == files[e.owner][1]

\* The declaration's remote, or defaults.remote when it has none
EffectiveRemote(decl, manifest) ==
    IF IsSet(decl.remote) THEN decl.remote ELSE manifest.defaults.remote

\* The declaration needs a remote that the manifest's remote list lacks
UnknownRemote(decl, manifest) ==
    /\ ~IsSetUrl(decl.url)
    /\ IsSet(EffectiveRemote(decl, manifest))
    /\ \A a \in 1..Len(manifest.remotes) :
          manifest.remotes[a].name # EffectiveRemote(decl, manifest)[1]

\* The yields that come from declarations: all but the main project's
DepYields == IF kind = "project" /\ ~skip_main /\ out # <<>> THEN Tail(out) ELSE out

\* The first declaration of `path` the walker has encountered
FirstScannedOf(path) ==
    scanned[CHOOSE k \in 1..Len(scanned) :
                /\ scanned[k].project.path = path
                /\ \A j \in 1..(k - 1) : scanned[j].project.path # path]

\* ProjectIter stands at a declaration of a path that an earlier
\* declaration of this traversal already has
AtLaterDecl ==
    /\ kind = "project" /\ AtDecl
    /\ \E k \in 1..Len(scanned) : scanned[k].project.path = DeclPath(CurDecl)

\* Of the declarations of one path only the first is yielded, as declared
FirstWins ==
    kind = "project" =>
        /\ \A a \in 1..Len(DepYields) :
              DepYields[a] = FirstScannedOf(DepYields[a].path).project
        /\ \A a, b \in 1..Len(DepYields) :
              a # b => DepYields[a].path # DepYields[b].path

\* The step drops the declaration: nothing is yielded, visited or queued,
\* nothing is read, and the loop moves to the next declaration
DropsDecl ==
    /\ out' = out /\ done' = done
    /\ stack' = SetTop([Top EXCEPT !.i = @ + 1])
    /\ \A k \in (Len(log) + 1)..Len(log') : log'[k].op = "skip"

---------------------------------------------------------------------------
(* C6, as claimed: of several declarations that resolve to one path the    *)
(* first encountered is the one yielded, and every later one is dropped    *)
(* without an error, without a yield and without recursion.                *)
C6_LaterDeclDroppedSilently ==
    /\ []FirstWins
    /\ [][AtLaterDecl => (pc' # "error" /\ DropsDecl)]_vars

(* C6, amended: of several declarations that resolve to one path the       *)
(* first encountered is the one yielded; a later one is never yielded and  *)
(* never recursed into, and it is dropped without an error unless its own  *)
(* resolution fails on an unknown remote, which is raised as for any       *)
(* declaration because resolution precedes the duplicate check.            *)
C6_LaterDeclDropped ==
    /\ []FirstWins
    /\ [][AtLaterDecl =>
            IF UnknownRemote(CurDecl, Top.manifest)
              THEN pc' = "error" /\ out' = out /\ done' = done /\ stack' = stack
              ELSE pc' # "error" /\ DropsDecl]_vars

\* Two declarations of path dep1 that differ in name, url and revision
\* have been encountered; the traversal ended normally with one yield
C6_Witness ==
    /\ kind = "project" /\ pc = "done"
    /\ \E a, b \in 1..Len(scanned) :
          /\ a < b
          /\ scanned[a].project.path = "dep1" /\ scanned[b].project.path = "dep1"
          /\ scanned[a].project.name # scanned[b].project.name
          /\ scanned[a].project.revision # scanned[b].project.revision
          /\ scanned[a].project.url # scanned[b].project.url
    /\ Cardinality({k \in 1..Len(out) : out[k].path = "dep1"}) = 1


---------------------------------------------------------------------------
\* The root manifest holds exactly one declaration and has been read
OneRootDecl ==
    /\ kind = "project" /\ RootLoaded
    /\ files[MainPath] # None
    /\ Len(files[MainPath][1].dependencies) = 1

\* The read of the root manifest failed on the validation of a declaration
RootInvalid ==
    /\ pc = "error" /\ stack = <<>>
    /\ error.exception = "ValidationError" /\ error.path = MainPath

(* C7: constructing a declaration from (remote, url, sub_url) succeeds if  *)
(* and only if none of these holds: remote and url both set; url and       *)
(* sub_url both set; sub_url set while the declaration's own remote is not *)
(* (a remote in the manifest defaults does not count).  With sub_url       *)
(* absent it fails exactly when remote and url are both set.               *)
C7_DeclarationValid ==
    OneRootDecl =>
        LET d == files[MainPath][1].dependencies[1]
            r == IsSet(d.remote)
            u == IsSetUrl(d.url)
            s == IsSet(d.sub_url)
        IN  /\ RootInvalid <=> ((r /\ u) \/ (u /\ s) \/ (s /\ ~r))
            /\ ~s => (RootInvalid <=> (r /\ u))

\* A declaration with sub_url and no remote of its own was refused although
\* the manifest defaults name a remote
C7_Witness ==
    /\ OneRootDecl /\ RootInvalid
    /\ error.details = "'sub-url' requires 'remote'"
    /\ files[MainPath][1].defaults.remote = Some("origin")
    /\ files[MainPath][1].dependencies[1].url = None

(* C8: for a declaration without explicit url the effective remote is its  *)
(* own remote if set, else defaults.remote; with an effective remote the   *)
(* url is "{url_base}/{sub_url if set, else name}" for the first alias of  *)
(* that name in the manifest's remote list; with none the url is absent    *)
(* and no error is raised; an explicit url is used unchanged and the       *)
(* remote list is not consulted.                                           *)
C8_ResolvedUrl ==
    (kind = "project" /\ ~resolve_url) =>
        /\ \A k \in 1..Len(scanned) :
              LET e == scanned[k]
                  d == DeclOf(e)
                  m == ManifestOf(e)
                  eff == EffectiveRemote(d, m)
                  sub == IF IsSet(d.sub_url) THEN d.sub_url[1] ELSE d.name
              IN  IF IsSetUrl(d.url) THEN e.project.url = d.url
                  ELSE IF ~IsSet(eff) THEN ~IsSetUrl(e.project.url)
                  ELSE \E a \in 1..Len(m.remotes) :
                          /\ m.remotes[a].name = eff[1]
                          /\ \A b \in 1..(a - 1) : m.remotes[b].name # eff[1]
                          /\ e.project.url =
                                Some((IF m.remotes[a].url_base = None
                                        THEN <<"None">>
                                        ELSE m.remotes[a].url_base[1]) \o <<sub>>)
        /\ (pc = "error" /\ error.exception = "ValueError") =>
              /\ ~IsSetUrl(CurDecl.url)
              /\ IsSet(EffectiveRemote(CurDecl, Top.manifest))

\* remote=origin, name=dep1 resolved to https://example.com/base/dep1 by
\* the first of two aliases named origin
C8_Witness ==
    /\ kind = "project" /\ ~resolve_url
    /\ \E k \in 1..Len(scanned) :
          /\ DeclOf(scanned[k]).remote = Some("origin")
          /\ DeclOf(scanned[k]).sub_url = None
          /\ Len(ManifestOf(scanned[k]).remotes) = 2
          /\ ManifestOf(scanned[k]).remotes[2] = Remote("origin", Some(AltUrl))
          /\ scanned[k].project.url = Some(<<"https://example.com", "base", "dep1">>)

(* C9: a declaration whose effective remote names no alias of the          *)
(* manifest's remote list fails with an unknown-remote error that          *)
(* identifies that effective remote and the project name; it is not        *)
(* yielded and the visited set stays exactly as it was.                    *)
C9_UnknownRemoteError ==
    [][(kind = "project" /\ AtDecl /\ UnknownRemote(CurDecl, Top.manifest)) =>
          /\ pc' = "error"
          /\ error'.what = "Unknown remote"
          /\ error'.name = CurDecl.name
          /\ error'.remote = EffectiveRemote(CurDecl, Top.manifest)
          /\ out' = out
          /\ done' = done]_vars

(* C10: with URL resolution enabled a relative url "../x" is resolved      *)
(* against the upstream URL of the project whose manifest declares it      *)
(* ("../dep4" declared by dep1 at https://example.com/base/dep1 gives      *)
(* https://example.com/base/dep4); with URL resolution disabled there is   *)
(* no reference URL and the url stays as declared.                         *)
C10_RelativeUrl ==
    kind = "project" =>
        /\ \A k \in 1..Len(scanned) :
              LET e == scanned[k]
                  d == DeclOf(e)
                  ref == GetUrl(e.owner)
              IN  (IsSetUrl(d.url) /\ d.url[1][1] = "..") =>
                      /\ e.project.url =
                            IF resolve_url
                              THEN Some(SubSeq(ref, 1, Len(ref) - 1) \o Tail(d.url[1]))
                              ELSE d.url
                      /\ (resolve_url /\ e.owner = "dep1" /\ d.url = Rel("dep4")) =>
                            e.project.url = Some(<<"https://example.com", "base", "dep4">>)
        /\ \A f \in 1..Len(stack) :
              stack[f].refurl =
                 IF resolve_url /\ stack[f].phase # "enter"
                   THEN Some(GetUrl(stack[f].project_path))
                   ELSE None

\* "../dep4" declared by dep2, whose upstream is not the main project's,
\* resolved against dep2's upstream URL
C10_Witness ==
    /\ kind = "project" /\ resolve_url
    /\ \E k \in 1..Len(scanned) :
          /\ scanned[k].owner = "dep2"
          /\ DeclOf(scanned[k]).url = Rel("dep4")
          /\ scanned[k].project.url = Some(<<"https://mirror.example", "fork", "dep4">>)

---------------------------------------------------------------------------
\* The walker was stopped by ManifestNotFoundError
NotFoundRaised == pc = "error" /\ error.exception = "ManifestNotFoundError"

(* C11: loading a manifest from a path without a file raises               *)
(* ManifestNotFoundError with that path, and with a default it returns the *)
(* default and raises nothing.  So ManifestIter fails with                 *)
(* ManifestNotFoundError on a missing root manifest before it yields       *)
(* anything, while ProjectIter takes a missing root manifest or a missing  *)
(* dependency manifest for an empty dependency list: over a missing root   *)
(* it yields the main project only, or nothing with skip_main.             *)
C11_MissingManifest ==
    /\ (kind = "manifest" /\ files[MainPath] = None) =>
          /\ out = <<>>
          /\ pc # "done"
          /\ pc = "error" => (NotFoundRaised /\ error.path = MainPath)
    /\ (kind = "manifest" /\ NotFoundRaised) => files[error.path] = None
    /\ kind = "project" =>
          /\ ~NotFoundRaised
          /\ \A k \in 1..Len(scanned) : files[scanned[k].owner] # None
          /\ files[MainPath] = None =>
                /\ pc \notin {"start", "error"} =>
                      out = IF skip_main THEN <<>> ELSE <<MainProject>>
                /\ Len(stack) <= 1 /\ done = <<>>

\* ManifestIter over a workspace without root manifest has failed
C11_Witness ==
    /\ kind = "manifest" /\ files[MainPath] = None
    /\ NotFoundRaised /\ error.path = MainPath /\ out = <<>>

\* ProjectIter has finished over a workspace without root manifest
C11_ProjectWitness ==
    /\ kind = "project" /\ pc = "done"
    /\ files[MainPath] = None /\ out = <<MainProject>>

---------------------------------------------------------------------------
\* The calls of Manifest.load so far
Loads == {k \in 1..Len(returned) : returned[k].op = "load"}

(* C12: loading a manifest file that exists but holds no structurally      *)
(* valid document (a dependency that violates a remote/url/sub-url rule, a *)
(* file without top-level mapping) fails with ManifestError carrying the   *)
(* path of the file and the details; no other kind of error leaves load    *)
(* for an existing file.                                                   *)
C12_BrokenFileRaisesManifestError ==
    \A k \in Loads :
        LET r == returned[k].result
        IN  (~r.ok /\ r.exception # "ManifestNotFoundError") =>
                /\ r.exception = "ManifestError"
                /\ r.path = returned[k].path

(* C13: saving a valid manifest to a path and loading that path returns a  *)
(* manifest equal to the saved one: main project, defaults, the remotes    *)
(* and the dependencies in their order, absent fields absent.              *)
C13_SaveLoadRoundTrip ==
    \A k \in Loads :
        (k > 1 /\ returned[k - 1].op = "save" /\ returned[k].path = returned[k - 1].path) =>
            /\ returned[k].result.ok
            /\ returned[k].result.manifest = returned[k - 1].manifest

\* A manifest with a main project of its own, defaults, two remotes and two
\* dependencies, among them the revisions "1" and "null" and an empty
\* path, has been saved and loaded
C13_Witness ==
    /\ Len(returned) = 2 /\ returned[2].op = "load"
    /\ returned[1].path = returned[2].path
    /\ returned[2].result.ok
    /\ returned[1].manifest.main.name = "top"
    /\ returned[1].manifest.defaults.revision = Some("1")
    /\ Len(returned[1].manifest.remotes) = 2
    /\ returned[1].manifest.projects =
          <<ProjectSpec("dep2", None, None, Rel("dep2"), Some("null"), Some("")),
            ProjectSpec("dep1", Some("origin"), Some("sub"), None, Some("1"), None)>>

---------------------------------------------------------------------------
\* The list the filter was created from, None when there was none
AllowedPaths == project_filter[1].initialized_project_paths

C14_EmptyListWitness ==
    /\ project_filter # None /\ AllowedPaths = Some(<<>>)
    /\ calls # <<>> /\ calls[1].result

---------------------------------------------------------------------------
\* The two instances are pulled from in turns
InTurns == Len(solo) = 2

\* Instance i of the consumer as it stands
WalkerAt(i) == IF active = i THEN Self ELSE parked[i]

IsPrefix(s, t) == Len(s) <= Len(t) /\ s = SubSeq(t, 1, Len(s))

(* C15: two walker instances share no visited list: however the consumer   *)
(* interleaves the steps of two instances, over the same workspace or over *)
(* different ones, each yields the sequence it yields when it runs alone   *)
(* and ends the same way.                                                  *)
C15_IndependentWalkers ==
    InTurns =>
        \A i \in 1..2 :
            /\ IsPrefix(WalkerAt(i).out, solo[i].out)
            /\ WalkerAt(i).pc \in {"done", "error"} =>
                  /\ WalkerAt(i).out = solo[i].out
                  /\ WalkerAt(i).error = solo[i].error

\* Two ProjectIter instances over the fixture have both ended; the consumer
\* had left the first one before its first dependency and pulled the whole
\* second one in between
C15_Witness ==
    /\ InTurns
    /\ WalkerAt(1).kind = "project" /\ WalkerAt(2).kind = "project"
    /\ WalkerAt(1).files = FixtureFiles /\ WalkerAt(2).files = FixtureFiles
    /\ WalkerAt(1).pc = "done" /\ WalkerAt(2).pc = "done"
    /\ Len(WalkerAt(1).out) = 5 /\ Len(WalkerAt(2).out) = 4
    /\ active = 1
    /\ parked[1].done = <<>> /\ parked[1].pc # "start"

---------------------------------------------------------------------------
(* AppConfig: the merged configuration *)

\* The last call, when it is a call of `op` that returned
Returned(op) == last_call # None /\ last_call[1].op = op /\ last_call[1].ok

\* The options a configuration file sets
KeysOf(file) == IF file = None THEN AppConfigUnset ELSE file[1].keys

\* The sources of the merged configuration, the highest priority first
SourcesByPriority ==
    (IF appconfig.use_config_from_env THEN <<appconfig.environ>> ELSE <<>>)
    \o <<KeysOf(config_files["WORKSPACE"]), KeysOf(config_files["USER"]),
         KeysOf(config_files["SYSTEM"])>>

\* The value of option `o` by priority: that of the first source that sets
\* it, the built-in default when none does
ByPriority(o) ==
    LET setting == {i \in 1..Len(SourcesByPriority) : SourcesByPriority[i][o] # None}
        first == CHOOSE i \in setting : \A j \in setting : i <= j
    IN  IF setting = {} THEN ConfigDefaults[o] ELSE SourcesByPriority[first][o]

\* C16: the value options returns holds, for every option, the value of
\* the highest-priority source that sets it, in the order environment
\* (when use_config_from_env) > workspace file > user file > system file,
\* and the built-in default only when no source sets it; a source that
\* leaves the option unset masks nothing.
C16_MergePriority ==
    Returned("options") =>
        \A o \in ConfigOptions : last_call[1].value[o] = ByPriority(o)

\* options returned with one option from the environment, which leaves the
\* other unset, and that other from the user file although the system
\* file sets it too and the workspace file exists without setting it
C16_Witness ==
    /\ Returned("options")
    /\ appconfig.use_config_from_env
    /\ appconfig.environ["manifest_path"] = None
    /\ last_call[1].value["color_ui"] = Some("env")
    /\ last_call[1].value["manifest_path"] = Some("user")
    /\ config_files["WORKSPACE"] # None
    /\ KeysOf(config_files["SYSTEM"])["manifest_path"] = Some("system")

\* options returned a built-in default
C16_DefaultWitness ==
    /\ Returned("options")
    /\ last_call[1].value["color_ui"] = Some("default")
    /\ last_call[1].value["manifest_path"] = Some("system")

\* C17: the merged configuration is cached and save invalidates the
\* cache: whatever reads of options and saves came before, options
\* returns the merge of the files as they are now written; a read with a
\* cached value returns it and reads no file, a read without one reads
\* the files, and a save that succeeds leaves no cached value.
C17_CacheInvalidatedBySave ==
    /\ [](Returned("options") =>
            \A o \in ConfigOptions : last_call[1].value[o] = ByPriority(o))
    /\ [](merged_config # None =>
            \A o \in ConfigOptions : merged_config[1][o] = ByPriority(o))
    /\ [][/\ (last_call'[1].op = "options" /\ merged_config # None) =>
                /\ last_call'[1].reads = <<>>
                /\ last_call'[1].ok /\ last_call'[1].value = merged_config[1]
          /\ (last_call'[1].op = "options" /\ merged_config = None) =>
                /\ last_call'[1].reads # <<>>
                /\ last_call'[1].ok => merged_config' = Some(last_call'[1].value)
          /\ (last_call'[1].op = "save" /\ last_call'[1].ok) =>
                merged_config' = None]_vars

\* options returned a saved value from the cache: a save, a read of the
\* files and a cached read came before
C17_Witness ==
    /\ Returned("options")
    /\ last_call[1].reads = <<>>
    /\ last_call[1].value["color_ui"] = Some("saved")
    /\ last_call[1].value["manifest_path"] = Some("user")

\* C18: without workspace configuration directory load(WORKSPACE)
\* returns a configuration with every option unset and reads no file,
\* options is the merge of system, user and environment, and
\* save(config, WORKSPACE) raises UninitializedError, writes no file and
\* leaves the cached merged configuration as it is.
C18_NoWorkspace ==
    /\ []((appconfig.workspace_config_dir = None /\ last_call # None) =>
            /\ (last_call[1].op = "load" /\ last_call[1].location = "WORKSPACE") =>
                    /\ last_call[1].ok
                    /\ last_call[1].value = AppConfigUnset
                    /\ last_call[1].reads = <<>>
            /\ Returned("options") =>
                    /\ "WORKSPACE" \notin {last_call[1].reads[i] :
                                             i \in 1..Len(last_call[1].reads)}
                    /\ config_files["WORKSPACE"] = None
                    /\ \A o \in ConfigOptions : last_call[1].value[o] = ByPriority(o))
    /\ [][(/\ appconfig.workspace_config_dir = None
           /\ last_call'[1].op = "save"
           /\ last_call'[1].location = "WORKSPACE") =>
                /\ ~last_call'[1].ok
                /\ last_call'[1].exception = "UninitializedError"
                /\ config_files' = config_files
                /\ merged_config' = merged_config]_vars

\* save(config, WORKSPACE) raised UninitializedError on an AppConfig
\* without workspace that holds a cached merged configuration
C18_Witness ==
    /\ appconfig.workspace_config_dir = None
    /\ last_call # None
    /\ last_call[1].op = "save" /\ last_call[1].location = "WORKSPACE"
    /\ ~last_call[1].ok /\ last_call[1].exception = "UninitializedError"
    /\ merged_config # None

\* load(WORKSPACE) returned the unset configuration without workspace
C18_LoadWitness ==
    /\ appconfig.workspace_config_dir = None
    /\ Returned("load")
    /\ last_call[1].location = "WORKSPACE"
    /\ last_call[1].value = AppConfigUnset
    /\ KeysOf(config_files["USER"])["manifest_path"] # None

---------------------------------------------------------------------------
(* The order of a traversal *)

\* The paths the manifest of project `path` declares, as walker `k` loads it
PathsDeclaredBy(k, path) ==
    LET r == IF k = "project"
               THEN LoadOrDefault(FileAt(path), path, MANIFEST_DEFAULT)
             ELSE Load(FileAt(path), path)
    IN  IF r.ok
          THEN [i \in 1..Len(r.manifest.dependencies) |-> DeclPath(r.manifest.dependencies[i])]
        ELSE <<>>

RECURSIVE FirstPhase(_, _, _)
RECURSIVE SecondPhase(_, _, _)

\* The declared paths in declaration order: each one not visited yet is
\* visited and attributed to the declaring project `owner`
FirstPhase(owner, paths, visits) ==
    IF paths = <<>> THEN visits
    ELSE FirstPhase(owner, Tail(paths),
                    IF \E k \in 1..Len(visits) : visits[k].path = Head(paths)
                      THEN visits
                    ELSE Append(visits, [owner |-> owner, path |-> Head(paths)]))

\* The two phases at one manifest: its own declarations first, then the
\* paths it has newly visited, each with its whole subtree, in that order
TwoPhases(k, node, visits) ==
    LET after == FirstPhase(node, PathsDeclaredBy(k, node), visits)
    IN  SecondPhase(k, [i \in 1..(Len(after) - Len(visits)) |-> after[Len(visits) + i].path],
                    after)

SecondPhase(k, children, visits) ==
    IF children = <<>> THEN visits
    ELSE SecondPhase(k, Tail(children), TwoPhases(k, Head(children), visits))

\* The visits of the whole traversal in two-phase order, when no error
\* ends it
VisitOrder == TwoPhases(kind, MainPath, <<>>)

\* C19: both walkers work in two phases. The visited paths (yielded by
\* the Project Walker, marked by the Tree Walker) are at every moment the
\* beginning of the two-phase order: the declarations of a manifest in
\* declaration order, then the subtree of each queued child to its end,
\* in the order the children were recorded. No manifest is entered
\* while a manifest above it still has declarations to scan, and each
\* visit happens while the walker scans the manifest the two-phase order
\* attributes the path to.
C19_TwoPhases ==
    /\ [](/\ Len(done) <= Len(VisitOrder)
          /\ \A k \in 1..Len(done) : done[k] = VisitOrder[k].path)
    /\ [](\A k \in 1..(Len(stack) - 1) :
            /\ stack[k].phase = "scan"
            /\ stack[k].i > Len(stack[k].manifest.dependencies))
    /\ [](pc = "done" => Len(done) = Len(VisitOrder))
    /\ [][done' # done =>
            /\ Len(done') = Len(done) + 1
            /\ VisitOrder[Len(done')].owner = Top.project_path]_vars

\* The Tree Walker has finished where the root manifest declares dep1 and
\* dep2 and the manifest of dep1, entered before dep2's, declares dep2 too
C19_Witness ==
    /\ kind = "manifest" /\ pc = "done"
    /\ FileAt("main") = Plain(<<Dep("dep1"), Dep("dep2")>>)
    /\ FileAt("dep1") = Plain(<<Dep("dep2")>>)
    /\ FileAt("dep2") = Plain(<<Dep("main")>>)
    /\ done = <<"dep1", "dep2", "main">>

\* The same for the Project Walker
C19_ProjectWitness ==
    /\ kind = "project" /\ pc = "done"
    /\ FileAt("main") = Plain(<<Dep("dep1"), Dep("dep2")>>)
    /\ FileAt("dep1") = Plain(<<Dep("dep2")>>)
    /\ FileAt("dep2") = Plain(<<Dep("main")>>)
    /\ done = <<"dep1", "dep2", "main">>
    /\ scanned[2].owner = "main" /\ scanned[2].project.path = "dep2"

---------------------------------------------------------------------------
(* The resolved project *)

\* C20: every project the walker yields has a non-empty path.
C20_PathNonEmpty ==
    kind = "project" => \A k \in 1..Len(out) : out[k].path # ""

\* Every resolved project has the declaration's path when that is given
\* and not empty and the declaration's name otherwise, and the
\* declaration's revision when given and not empty and defaults.revision
\* otherwise; `done` holds the resolved paths of the yielded declarations
C20_PathAndRevisionRule ==
    kind = "project" =>
        /\ \A k \in 1..Len(scanned) :
              LET decl == DeclOf(scanned[k])
                  dep == scanned[k].project
              IN  /\ dep.path = (IF IsSet(decl.path) THEN decl.path[1] ELSE decl.name)
                  /\ dep.revision = (IF IsSet(decl.revision) THEN decl.revision
                                      ELSE ManifestOf(scanned[k]).defaults.revision)
        /\ done = [k \in 1..Len(DepYields) |-> DepYields[k].path]

---------------------------------------------------------------------------
(* The Git adapter *)

\* The places of the log where the adapter is called with `op`
AdapterCalls(op) == {k \in 1..Len(log) : log[k].op = op}

\* C21: with resolve_url set ProjectIter calls get_url only for a path
\* the adapter reports cloned and directly after is_cloned for that path;
\* an is_cloned that is false is the last thing the traversal does: it
\* ends with a failure at that path, without get_url and without a
\* dependency of that project resolved or yielded. With resolve_url
\* unset the adapter is never called.
C21_ClonedBeforeUrl ==
    kind = "project" =>
        /\ \A k \in AdapterCalls("get_url") :
              /\ log[k].path \in cloned
              /\ k > 1 /\ log[k - 1] = Event("is_cloned", log[k].path)
        /\ \A k \in AdapterCalls("is_cloned") :
              IF log[k].path \in cloned
                THEN k < Len(log) /\ log[k + 1] = Event("get_url", log[k].path)
              ELSE /\ k = Len(log)
                   /\ pc = "error"
                   /\ error.exception = "AssertionError" /\ error.path = log[k].path
                   /\ \A j \in 1..Len(scanned) : scanned[j].owner # log[k].path
        /\ ~resolve_url => AdapterCalls("is_cloned") \cup AdapterCalls("get_url") = {}

\* The traversal of the fixture has failed at dep1, which is not cloned,
\* after it had queried the URL of the main project and yielded main,
\* dep1 and dep2
C21_Witness ==
    /\ kind = "project" /\ resolve_url
    /\ files = FixtureFiles
    /\ pc = "error" /\ error.exception = "AssertionError" /\ error.path = "dep1"
    /\ Len(out) = 3
    /\ AdapterCalls("get_url") = {k \in 1..Len(log) : log[k] = Event("get_url", MainPath)}
    /\ AdapterCalls("get_url") # {}

\* The paths whose URL the adapter was asked for
Queried == {log[k].path : k \in AdapterCalls("get_url")}

\* The yielded dependencies that have a manifest of their own: those
\* ProjectIter queues for the second loop
Expanded ==
    {DepYields[k].path : k \in {j \in 1..Len(DepYields) :
        LET r == LoadOrDefault(FileAt(DepYields[j].path), DepYields[j].path, MANIFEST_DEFAULT)
        IN  r.ok /\ r.manifest # MANIFEST_DEFAULT}}

\* C22: with resolve_url set the adapter is asked for the URL of a
\* project path at most once in a traversal, and a completed traversal
\* has asked exactly for the main project and for every yielded
\* dependency that has a manifest of its own.
C22_UrlQueriedOncePerPath ==
    (kind = "project" /\ resolve_url) =>
        /\ \A a, b \in AdapterCalls("get_url") : log[a].path = log[b].path => a = b
        /\ pc = "done" => Queried = {MainPath} \cup Expanded

\* The queries are those of the main project and of the expanded
\* dependencies, and no path but the main project's is asked for twice
C22_QueriedNodes ==
    (kind = "project" /\ resolve_url) =>
        /\ \A a, b \in AdapterCalls("get_url") :
              (log[a].path = log[b].path /\ log[a].path # MainPath) => a = b
        /\ Queried \subseteq {MainPath} \cup Expanded
        /\ pc = "done" => Queried = {MainPath} \cup Expanded

---------------------------------------------------------------------------
(* When ProjectIter reads a dependency's manifest *)

\* The places of the log where a dependency is yielded: a yield that
\* follows its visit
DepYieldAt == {k \in 2..Len(log) : log[k].op = "yield" /\ log[k - 1].op = "visit"}

\* The project whose manifest declares the dependency yielded at place k
\* of the log
OwnerOfYield(k) ==
    VisitOrder[Cardinality({j \in 1..k : log[j].op = "visit"})].owner

\* C23 as stated: no manifest file of a dependency is read between the
\* yields of two dependencies that the same manifest declares.
C23_NoLoadBetweenSiblings ==
    kind = "project" =>
        \A a, c \in DepYieldAt :
            (a < c /\ OwnerOfYield(a) = OwnerOfYield(c)) =>
                \A b \in (a + 1)..(c - 1) : log[b].op # "load"

\* C23: ProjectIter loads the manifest of a yielded dependency as its
\* first step after the yield, before it scans the next declaration:
\* every yield but the last event is directly followed by the read of
\* the manifest at the yielded path, and every read but the root
\* manifest's directly follows the yield of its path. Only the descent
\* into the loaded manifests waits: no frame below the running one has a
\* declaration left to scan.
C23_LoadFollowsYield ==
    kind = "project" =>
        /\ \A k \in 1..(Len(log) - 1) :
              log[k].op = "yield" => log[k + 1] = Event("load", log[k].path)
        /\ \A k \in 1..Len(log) :
              log[k].op = "load" =>
                  \/ k = 1 /\ skip_main /\ log[k].path = MainPath
                  \/ k > 1 /\ log[k - 1] = Event("yield", log[k].path)
        /\ \A k \in 1..(Len(stack) - 1) :
              stack[k].i > Len(stack[k].manifest.dependencies)

\* The traversal of the fixture is complete: the manifest of dep1 was
\* read between the yields of the siblings dep1 and dep2, and dep4, which
\* it declares, was yielded after dep2
C23_Witness ==
    /\ kind = "project" /\ pc = "done" /\ files = FixtureFiles
    /\ \E k \in DepYieldAt :
          /\ log[k] = Event("yield", "dep1")
          /\ log[k + 1] = Event("load", "dep1")
          /\ log[k + 3] = Event("yield", "dep2")
          /\ OwnerOfYield(k) = OwnerOfYield(k + 3)
          /\ \E j \in DepYieldAt : j > k + 3 /\ log[j] = Event("yield", "dep4")

---------------------------------------------------------------------------
(* One walker instance iterated twice *)

\* The walker is in its second iteration
Again == Len(solo) = 1

\* What the first iteration yielded from declarations
FirstDepYields ==
    IF kind = "project" /\ ~skip_main /\ solo[1].out # <<>> THEN Tail(solo[1].out)
    ELSE solo[1].out

\* C24: a walker instance is single-use. Its visited list is never
\* reset: it only grows, across iterations too. The second iteration of
\* a ProjectIter yields no dependency at a path the first iteration
\* yielded a dependency at, and after a completed first traversal it
\* completes with the main project alone (nothing with skip_main); the
\* second iteration of a ManifestIter yields the root manifest and apart
\* from it no manifest the first iteration yielded. Where the first
\* traversal yielded a dependency, the second does not reproduce it.
C24_SingleUse ==
    /\ [][IsPrefix(done, done')]_vars
    /\ []((Again /\ kind = "project") =>
            /\ \A k \in 1..Len(DepYields), j \in 1..Len(FirstDepYields) :
                  DepYields[k].path # FirstDepYields[j].path
            /\ solo[1].error = NoError =>
                  /\ DepYields = <<>>
                  /\ pc # "error"
                  /\ pc = "done" => out = (IF skip_main THEN <<>> ELSE <<MainProject>>)
            /\ (pc = "done" /\ FirstDepYields # <<>>) => out # solo[1].out)
    /\ []((Again /\ kind = "manifest") =>
            /\ \A k \in 1..Len(out) :
                  \/ k = 1 /\ out[k].path = MainPath
                  \/ \A j \in 1..Len(solo[1].out) : out[k].path # solo[1].out[j].path
            /\ Len(out) <= 1
            /\ (pc = "done" /\ Len(solo[1].out) > 1) => out # solo[1].out)

\* The second iteration of a ProjectIter over the fixture is complete:
\* the first yielded main, dep1, dep2, dep4, dep3, the second main alone
C24_Witness ==
    /\ Again /\ kind = "project" /\ ~skip_main /\ files = FixtureFiles
    /\ pc = "done"
    /\ Len(solo[1].out) = 5 /\ solo[1].error = NoError
    /\ out = <<MainProject>>
    /\ Len(done) = 4

\* The second iteration of a ManifestIter over the fixture is complete
\* with the root manifest alone
C24_ManifestWitness ==
    /\ Again /\ kind = "manifest" /\ files = FixtureFiles
    /\ pc = "done"
    /\ Len(solo[1].out) = 3
    /\ Len(out) = 1 /\ out[1].path = MainPath

---------------------------------------------------------------------------
(* The walker and the project directories *)

\* The places of the log where the walker touches a project directory
Touches == {k \in 1..Len(log) : log[k].op \in {"load", "is_cloned", "get_url"}}

\* The paths at which the walker has yielded a dependency
YieldedPaths == {DepYields[k].path : k \in 1..Len(DepYields)}

\* The paths the upstream manifest of project `path` declares
UpstreamDecls(path) ==
    IF upstream[path] = None THEN {}
    ELSE {DeclPath(upstream[path][1].dependencies[i]) :
            i \in 1..Len(upstream[path][1].dependencies)}

\* C25: ProjectIter touches no directory but the main project's before
\* it has yielded the dependency at that path and the consumer has asked
\* for a further element: every manifest read, cloned check and URL
\* query at a path other than the main project's comes after the yield
\* at that path, when the consumer has cloned it. With the main project
\* cloned and a consumer that clones every project when it is yielded,
\* no cloned check fails, and the manifest of every yielded project is
\* seen: every path it declares upstream is visited.
C25_YieldBeforeTouch ==
    /\ \A k \in Touches :
          \/ log[k].path = MainPath
          \/ /\ \E j \in 1..(k - 1) : log[j] = Event("yield", log[k].path)
             /\ log[k].path \in cloned
    /\ \A k \in Touches : log[k].op = "load" => files[log[k].path] = upstream[log[k].path]
    /\ pc = "error" => error.exception # "AssertionError"
    /\ \A k \in AdapterCalls("is_cloned") : log[k].path \in cloned
    /\ pc = "done" =>
          \A p \in YieldedPaths \cup {MainPath} : \A q \in UpstreamDecls(p) : InDone(q, done)

\* The traversal of the fixture with resolve_url is complete: only main
\* was cloned at the start, and dep4 and dep3, declared by manifests the
\* consumer cloned during the traversal, were yielded
C25_Witness ==
    /\ kind = "project" /\ resolve_url /\ pc = "done"
    /\ upstream = FixtureFiles
    /\ Len(out) = 5 /\ out[4].path = "dep4" /\ out[5].path = "dep3"
    /\ cloned = Dirs
    /\ AdapterCalls("get_url") # {}

===========================================================================
